---- MODULE Spec2Model ----
(***************************************************************************)
(* Orchestration control core of the ceph-mgr cephadm backend.             *)
(*                                                                         *)
(*   SpecPromise    the _Promise / Completion chain engine                 *)
(*                  (src/pybind/mgr/orchestrator.py)                       *)
(*   SpecPump       the same engine driven through process() only          *)
(*   SpecHosts      the host registry and the two per-host caches          *)
(*                  (cephadm/module.py, OutdatableData in orchestrator.py) *)
(*   SpecReconcile  the passes that bring a service to a desired count     *)
(*                  (cephadm/module.py)                                    *)
(*   SpecUpgrade    the upgrade state record, its API and the upgrade      *)
(*                  step of serve() (cephadm/module.py)                    *)
(*   SpecRemote     remote execution and the per-host operations           *)
(*                  (cephadm/module.py)                                    *)
(*   SpecWait       _orchestrator_wait over asynchronous completions;      *)
(*                  FairSpecWait adds the scheduling of the two threads    *)
(*   SpecThreads    the API thread, the worker of the pool and serve():    *)
(*                  their remote executions and their accesses to the      *)
(*                  upgrade state and the service cache                    *)
(*   SpecServices   the service listing, its batch of scans and the        *)
(*                  service cache (cephadm/module.py)                      *)
(*   SpecServe      the loop of serve() with the upgrade API, shutdown()   *)
(*                  and the failover of the manager; FairSpecServe adds    *)
(*                  the scheduling of serve() and of the calls begun       *)
(*   SpecScan       a scan of a host next to the creations, removals and   *)
(*                  redeployments on it (cephadm/module.py)                *)
(*                                                                         *)
(* The specifications share one state; each leaves the variables of the    *)
(* others at their idle values.                                            *)
(*                                                                         *)
(* Values handled by continuations are uninterpreted: a value is the       *)
(* sequence of the names of the functions applied so far, so that          *)
(* f(g(v)) = Append(Append(v, "g"), "f") and two different compositions    *)
(* never agree by accident.                                                *)
(*                                                                         *)
(* Logging calls are not modelled.  orchestrator.py calls a module-level   *)
(* `logger` (lines 247, 262) whose definition is not part of the file; it  *)
(* is taken to be the usual logging.getLogger(__name__).  The same holds   *)
(* for self.log(...) in get_unique_name (cephadm/module.py, line 528).     *)
(***************************************************************************)
EXTENDS Integers, Sequences, FiniteSets, TLC

VARIABLES
    \* _Promise engine: the allocated nodes and the last call made on them
    promises, lastOp,
    \* host registry, the two caches (as persisted), the UTC clock, the local
    \* time zone and the last operation on them
    inventory, inventory_cache, service_cache, now, utcoffset, lastHostOp,
    \* the daemons deployed on the cluster and the last reconcile pass
    daemons, lastPass,
    \* the upgrade: self.upgrade_state, the 'upgrade_state' key of the
    \* manager's store, whether serve() is still running, the last call
    upgrade_state, upgrade_store, serve_running, lastUpgradeOp,
    \* the hosts of the connections that are open, the last per-host operation
    connections, lastRemoteOp,
    \* the completions a caller waits for, the tasks queued on the worker pool,
    \* the caller's position in _orchestrator_wait, the calls of process() made
    wait_completions, pool, wait_pc, pumps,
    \* the threads: where each is, the tasks queued on the pool, the numbers of
    \* tasks submitted and completed, the task serve() waits for, the
    \* upgrade as the threads see it, the last write to shared state
    thr_pc, pool_q, submitted, completed, serve_wait, upg, lastWrite,
    \* the service listing: the module option service_cache_timeout and the
    \* last listing or daemon operation
    service_cache_timeout, lastSvcOp,
    \* the control loop: self.run, the flag of self.event, whether the worker
    \* pool accepts tasks, where serve() is, where the thread that calls the
    \* API is, and the image every deployed daemon runs
    run, event, pool_open, serve_pc, api_pc, cluster,
    \* a scan next to a redeployment: the daemon list of every host (as a
    \* version number), the task of the worker and the redeployment
    \* serve() is in
    host_ls, worker_job, serve_job

pvars == <<promises, lastOp>>
hvars == <<inventory, inventory_cache, service_cache, now, utcoffset, lastHostOp>>
rvars == <<daemons, lastPass>>
uvars == <<upgrade_state, upgrade_store, serve_running, lastUpgradeOp>>
\* the subsystems modelled after the first three
cvars == <<connections, lastRemoteOp>>
wvars == <<wait_completions, pool, wait_pc, pumps>>
tvars == <<thr_pc, pool_q, submitted, completed, serve_wait, upg, lastWrite>>
svars == <<service_cache_timeout, lastSvcOp>>
lvars == <<run, event, pool_open, serve_pc, api_pc, cluster>>
gvars == <<host_ls, worker_job, serve_job>>
xvars == <<uvars, cvars, wvars, tvars, svars, lvars, gvars>>
vars == <<promises, lastOp, inventory, inventory_cache, service_cache, now,
          utcoffset, lastHostOp, daemons, lastPass, upgrade_state,
          upgrade_store, serve_running, lastUpgradeOp, connections,
          lastRemoteOp,
          wait_completions, pool, wait_pc, pumps,
          thr_pc, pool_q, submitted, completed, serve_wait, upg, lastWrite,
          service_cache_timeout, lastSvcOp,
          run, event, pool_open, serve_pc, api_pc, cluster,
          host_ls, worker_job, serve_job>>

(***************************************************************************)
(* Bounds                                                                  *)
(***************************************************************************)
\* number of nodes a driver may allocate with the constructor and then()
MaxDriverNodes == 3

(***************************************************************************)
(* _Promise: constants                                                     *)
(***************************************************************************)
INITIALIZED == "INITIALIZED"
FINISHED == "FINISHED"
\* the NO_RESULT sentinel object
NO_RESULT == <<"NO_RESULT">>
\* the placeholder string fail() stores into _value
EXCEPTION_VALUE == <<"exception">>
\* Python's None for on_complete / exception; 0 is None for node references
None == "None"
AssertionError == "AssertionError"

\* values a driver passes to the constructor
DriverValues == {<<"v">>}
\* values a driver passes to finalize(value)
FinalizeValues == {<<"w">>}
\* exceptions raised by continuations or handed to fail()
Exceptions == {"E1", "E2"}
\* the exception a driver hands to fail()
DriverExceptions == {"E2"}

(***************************************************************************)
(* Continuations.  A continuation is one of                                *)
(*   plain  returns a plain value                                          *)
(*   raise  raises an exception                                            *)
(*   chain  builds a fresh secondary chain and returns its tail            *)
(***************************************************************************)
PlainConts == {"f", "g"}
RaiseConts == {"boom"}
ChainConts == {"sub_val", "sub_call", "sub_then", "sub_boom", "sub_sub"}
Conts == PlainConts \cup RaiseConts \cup ChainConts
\* the continuations a driver queues itself; "sub_call" and "sub_val" are
\* queued by the secondary chains of "sub_sub" and "sub_then"
DriverConts == {"f", "g", "boom", "sub_then", "sub_boom", "sub_sub"}

ContKind(c) ==
    IF c \in PlainConts THEN "plain"
    ELSE IF c \in RaiseConts THEN "raise" ELSE "chain"

\* exception raised by a raise continuation
ContExc(c) == "E1"

\* value handed to the constructor of the secondary chain built by c(v)
ChainValue(c, v) ==
    CASE c = "sub_val"  -> <<"s">>                \* Completion(value="...")
      [] c = "sub_call" -> v                      \* cls(on_complete=f, value=value)
      [] c = "sub_then" -> v
      [] c = "sub_boom" -> v
      [] c = "sub_sub"  -> NO_RESULT              \* no value: takes the parent's

\* on_complete handed to the constructor of the secondary chain
ChainFirst(c) ==
    CASE c = "sub_val"  -> None
      [] c = "sub_call" -> "f"
      [] c = "sub_then" -> None
      [] c = "sub_boom" -> "boom"
      [] c = "sub_sub"  -> "sub_call"             \* 3-level nesting

\* continuations queued with then() on the secondary chain
ChainThens(c) ==
    CASE c = "sub_then" -> <<"g", "sub_val">>
      [] c = "sub_sub"  -> <<"g">>
      [] OTHER          -> <<>>

(***************************************************************************)
(* _Promise: the heap of nodes                                             *)
(***************************************************************************)
NewPromise(self, value, on_complete) ==
    [on_complete |-> on_complete,
     next        |-> 0,
     state       |-> INITIALIZED,
     exception   |-> None,
     value       |-> value,
     first       |-> self]

\* __iter__: the nodes from n on, following _next_promise
RECURSIVE Iter(_, _)
Iter(h, n) ==
    IF n = 0 THEN <<>> ELSE <<n>> \o Iter(h, h[n].next)

InSeq(x, s) == \E i \in 1..Len(s) : s[i] = x

\* __contains__: item is one of the nodes of self's chain
Contains(h, self, item) == InSeq(item, Iter(h, h[self].first))

\* _last_promise
LastPromise(h, n) == LET it == Iter(h, n) IN it[Len(it)]

\* the result of an operation on the heap: the heap it leaves, the
\* continuations invoked, the value returned and the exception that escapes
Res(h, log, ret, raised) == [h |-> h, log |-> log, ret |-> ret, raised |-> raised]

RECURSIVE SetFirst(_, _, _)
SetFirst(h, ids, first) ==
    IF ids = <<>> THEN h
    ELSE SetFirst([h EXCEPT ![Head(ids)].first = first], Tail(ids), first)

\* _set_next_promise
SetNextPromise(h, self, nxt) ==
    IF self = nxt \/ h[self].state # INITIALIZED
    THEN Res(h, <<>>, 0, AssertionError)
    ELSE LET h1 == [h EXCEPT ![self].next = nxt]
         IN  Res(SetFirst(h1, Iter(h1, nxt), h1[self].first), <<>>, 0, None)

\* then
Then(h, self, on_complete) ==
    IF h[self].state # INITIALIZED
    THEN Res(h, <<>>, 0, AssertionError)
    ELSE IF h[self].on_complete # None
    THEN IF h[self].next # 0
         THEN Res(h, <<>>, 0, AssertionError)
         ELSE LET new == Len(h) + 1
                  h1  == Append(h, NewPromise(h[self].first, NO_RESULT, on_complete))
                  r   == SetNextPromise(h1, self, new)
              IN  Res(r.h, <<>>, r.h[self].next, r.raised)
    ELSE LET new == Len(h) + 1
             h1  == Append([h EXCEPT ![self].on_complete = on_complete],
                           NewPromise(h[self].first, NO_RESULT, None))
             r   == SetNextPromise(h1, self, new)
         IN  Res(r.h, <<>>, r.h[self].next, r.raised)

\* _append_promise
AppendPromise(h, self, other) ==
    IF other = 0 THEN Res(h, <<>>, 0, None)
    ELSE IF Contains(h, other, self) \/ Contains(h, self, other)
    THEN Res(h, <<>>, 0, AssertionError)
    ELSE SetNextPromise(h, LastPromise(h, self), other)

\* fail that does not pass the exception on to the next node
Fail_NoPropagate(h, self, e) ==
    IF h[self].state # INITIALIZED
    THEN Res(h, <<>>, 0, AssertionError)
    ELSE Res([h EXCEPT ![self].exception = e,
                       ![self].value = EXCEPTION_VALUE,
                       ![self].state = FINISHED], <<>>, 0, None)

\* fail that leaves _value alone
RECURSIVE Fail_KeepValue(_, _, _)
Fail_KeepValue(h, self, e) ==
    IF h[self].state # INITIALIZED
    THEN Res(h, <<>>, 0, AssertionError)
    ELSE LET h1 == [h EXCEPT ![self].exception = e]
             r  == IF h1[self].next # 0
                   THEN Fail_KeepValue(h1, h1[self].next, e)
                   ELSE Res(h1, <<>>, 0, None)
         IN  IF r.raised # None THEN r
             ELSE Res([r.h EXCEPT ![self].state = FINISHED], <<>>, 0, None)

\* fail
RECURSIVE Fail(_, _, _)
Fail(h, self, e) ==
    IF h[self].state # INITIALIZED
    THEN Res(h, <<>>, 0, AssertionError)
    ELSE LET h1 == [h EXCEPT ![self].exception = e,
                             ![self].value = EXCEPTION_VALUE]
             r  == IF h1[self].next # 0
                   THEN Fail(h1, h1[self].next, e)
                   ELSE Res(h1, <<>>, 0, None)
         IN  IF r.raised # None THEN r
             ELSE Res([r.h EXCEPT ![self].state = FINISHED], <<>>, 0, None)

\* the secondary chain a chain continuation builds: the constructor, then
\* one then() per queued continuation; the tail is what it returns
RECURSIVE BuildThens(_, _, _)
BuildThens(h, tail, fs) ==
    IF fs = <<>> THEN Res(h, <<>>, tail, None)
    ELSE LET r == Then(h, tail, Head(fs))
         IN  BuildThens(r.h, r.ret, Tail(fs))

BuildChain(h, c, v) ==
    LET new == Len(h) + 1
        h1  == Append(h, NewPromise(new, ChainValue(c, v), ChainFirst(c)))
    IN  BuildThens(h1, new, ChainThens(c))

\* self._on_complete(self._value): kind is "value", "promise" or "raise"
Invoke(h, c, v) ==
    CASE ContKind(c) = "plain" -> [kind |-> "value", h |-> h, val |-> Append(v, c),
                                   node |-> 0, exc |-> None]
      [] ContKind(c) = "raise" -> [kind |-> "raise", h |-> h, val |-> NO_RESULT,
                                   node |-> 0, exc |-> ContExc(c)]
      [] ContKind(c) = "chain" -> LET r == BuildChain(h, c, v)
                                  IN  [kind |-> "promise", h |-> r.h, val |-> NO_RESULT,
                                       node |-> r.ret, exc |-> None]

\* finalize without the try / except: the exception escapes
OnRaise_Escape(h, self, e) == Res(h, <<>>, 0, e)

\* finalize, lines 224-226: the continuation raised e
OnRaise(h, self, e) == Fail(h, self, e)

\* a splice that drops the nodes queued after self
Splice_DropRest(h, self, ret) ==
    LET next_result == h[ret].first
        s == SetNextPromise(h, self, next_result)
    IN  IF s.raised # None THEN s
        ELSE IF s.h[next_result].value = NO_RESULT
        THEN Res([s.h EXCEPT ![next_result].value = s.h[self].value], <<>>, 0, None)
        ELSE s

\* finalize, lines 230-238: the continuation returned a _Promise
Splice(h, self, ret) ==
    LET next_result == h[ret].first
    IN  IF Contains(h, self, next_result) \/ Contains(h, next_result, self)
        THEN Res(h, <<>>, 0, AssertionError)
        ELSE LET a == AppendPromise(h, next_result, h[self].next)
             IN  IF a.raised # None THEN a
                 ELSE LET s == SetNextPromise(a.h, self, next_result)
                      IN  IF s.raised # None THEN s
                          ELSE IF s.h[next_result].value = NO_RESULT
                          THEN Res([s.h EXCEPT ![next_result].value = s.h[self].value],
                                   <<>>, 0, None)
                          ELSE s

\* a forward that keeps the result on self
Forward_KeepOnSelf(h, self, next_result) ==
    [h EXCEPT ![self].value = next_result]

\* finalize, lines 240-245: a plain value is forwarded
Forward(h, self, next_result) ==
    IF h[self].next # 0
    THEN [h EXCEPT ![h[self].next].value = next_result]
    ELSE [h EXCEPT ![self].value = next_result]

\* finalize (with propagate_to_next)
RECURSIVE Finalize(_, _, _, _)
Finalize(h, log, self, value) ==
    IF h[self].state # INITIALIZED
    THEN Res(h, log, 0, AssertionError)
    ELSE
    LET h1 == IF value # NO_RESULT THEN [h EXCEPT ![self].value = value] ELSE h
    IN  IF h1[self].value = NO_RESULT
        THEN Res(h1, log, 0, AssertionError)
        ELSE
        LET c    == h1[self].on_complete
            inv  == IF c # None
                    THEN Invoke(h1, c, h1[self].value)
                    ELSE [kind |-> "value", h |-> h1, val |-> h1[self].value,
                          node |-> 0, exc |-> None]
            log1 == IF c # None THEN Append(log, <<self, c, h1[self].value>>) ELSE log
        IN  IF inv.kind = "raise"
            THEN LET f == OnRaise(inv.h, self, inv.exc)
                 IN  Res(f.h, log1, 0, f.raised)
            ELSE
            LET lk == IF inv.kind = "promise"
                      THEN Splice(inv.h, self, inv.node)
                      ELSE Res(Forward(inv.h, self, inv.val), <<>>, 0, None)
            IN  IF lk.raised # None
                THEN Res(lk.h, log1, 0, lk.raised)
                ELSE LET h2 == [lk.h EXCEPT ![self].state = FINISHED]
                     IN  IF h2[self].next # 0
                         THEN Finalize(h2, log1, h2[self].next, NO_RESULT)
                         ELSE Res(h2, log1, 0, None)

(***************************************************************************)
(* Completion: observers over the last node of the chain                   *)
(***************************************************************************)
\* Completion.result: asserts the last node FINISHED, returns its _value
Result(h, self) ==
    LET last == LastPromise(h, self)
    IN  IF h[last].state # FINISHED
        THEN [kind |-> "raise", exc |-> AssertionError, val |-> NO_RESULT]
        ELSE [kind |-> "return", exc |-> None, val |-> h[last].value]

Exception(h, self) == h[LastPromise(h, self)].exception
HasResult(h, self) == h[LastPromise(h, self)].state = FINISHED
IsErrored(h, self) == Exception(h, self) # None

(***************************************************************************)
(* The driver: builds one chain and calls then / finalize / fail on the    *)
(* nodes it holds, in any order.  A call whose assertion fails raises      *)
(* AssertionError; what it wrote before the assertion stays written.       *)
(***************************************************************************)
Op(op, node, arg, r, pre) ==
    [op |-> op, node |-> node, arg |-> arg, ret |-> r.ret, raised |-> r.raised,
     log |-> r.log, pre |-> pre]

NoOp == [op |-> "init", node |-> 0, arg |-> None, ret |-> 0, raised |-> None,
         log |-> <<>>, pre |-> <<>>]

\* a call that fails its entry assertion has no effect and is left out; a
\* call that raises after it wrote something is a step
Acted(h, r) == r.raised = None \/ r.h # h

\* values of the host and reconcile state of a module that has no host and
\* has made no pass
EmptyDict == [h \in {} |-> None]
NoHostOp == [op |-> "none", host |-> None, cache |-> None, timeout |-> <<>>,
             hosts |-> {}, stale |-> FALSE, raised |-> None,
             prev |-> <<"none", None, None>>]
NoPass == [op |-> "none", service_type |-> None, spec_name |-> None,
           count |-> 0, nodes |-> <<>>, created |-> <<>>, removed |-> <<>>,
           raised |-> None, existing |-> {}, repeated |-> FALSE,
           observed |-> 0, connected |-> {}, spec_count |-> 0]

PromiseIdle == promises = <<>> /\ lastOp = NoOp
HostsIdle ==
    /\ inventory = {}
    /\ inventory_cache = EmptyDict
    /\ service_cache = EmptyDict
    /\ now = 0
    /\ utcoffset = 0
    /\ lastHostOp = NoHostOp
ReconcileIdle == daemons = <<>> /\ lastPass = NoPass

\* no upgrade, nothing stored under 'upgrade_state', no call made
NoUpgradeOp == [op |-> "none", image |-> <<>>, version |-> <<>>,
                fmt |-> "", args |-> <<>>, raised |-> None,
                status |-> <<>>, pulled |-> FALSE, daemons |-> <<>>,
                before |-> <<>>, stored |-> <<>>]
UpgradeIdle ==
    /\ upgrade_state = <<>>
    /\ upgrade_store = <<>>
    /\ serve_running = TRUE
    /\ lastUpgradeOp = NoUpgradeOp
\* no connection open, no per-host operation called
NoRemoteOp == [op |-> "none", hosts |-> <<>>, filter |-> <<>>,
               raised |-> None, commands |-> <<>>, items |-> <<>>]
RemoteIdle == connections = <<>> /\ lastRemoteOp = NoRemoteOp
\* nobody waits and the worker pool has no task
WaitIdle ==
    /\ wait_completions = <<>>
    /\ pool = <<>>
    /\ wait_pc = "idle"
    /\ pumps = 0
\* the three threads at rest, nothing submitted, no upgrade, no write made
Threads == {"api", "worker", "serve"}
NoWrite == [thread |-> "none", object |-> "none", during |-> {}]
ThreadsIdle ==
    /\ thr_pc = [t \in Threads |-> "idle"]
    /\ pool_q = <<>>
    /\ submitted = 0
    /\ completed = 0
    /\ serve_wait = 0
    /\ upg = "none"
    /\ lastWrite = NoWrite
NoSvcOp == [op |-> "none", host |-> None, refresh |-> FALSE, stale |-> {},
            requested |-> <<>>, scanned |-> <<>>, written |-> {},
            failed |-> 0, raised |-> None, listing |-> <<>>]
ServicesIdle == service_cache_timeout = 60 /\ lastSvcOp = NoSvcOp
\* serve() not followed, no daemon deployed
LoopIdle ==
    /\ run = TRUE
    /\ event = FALSE
    /\ pool_open = TRUE
    /\ serve_pc = "idle"
    /\ api_pc = "idle"
    /\ cluster = <<>>
\* no host, no scan and no redeployment under way
NoJob == [kind |-> "none", host |-> None, read |-> None]
ScanIdle ==
    /\ host_ls = <<>>
    /\ worker_job = NoJob
    /\ serve_job = NoJob

ExtIdle ==
    /\ UpgradeIdle /\ RemoteIdle /\ WaitIdle /\ ThreadsIdle /\ ServicesIdle
    /\ LoopIdle /\ ScanIdle

InitPromise ==
    /\ ExtIdle
    /\ PromiseIdle
    /\ HostsIdle
    /\ ReconcileIdle

\* Completion(value=v, on_complete=c)
NewCompletion ==
    /\ promises = <<>>
    /\ \E v \in DriverValues \cup {NO_RESULT}, c \in DriverConts \cup {None} :
         /\ promises' = <<NewPromise(1, v, c)>>
         /\ lastOp' = Op("new", 1, c, Res(promises', <<>>, 1, None), promises)
    /\ UNCHANGED <<hvars, rvars, xvars>>

DoThen ==
    /\ Len(promises) < MaxDriverNodes
    /\ \E n \in 1..Len(promises), c \in DriverConts :
         LET r == Then(promises, n, c)
         IN  /\ Acted(promises, r)
             /\ promises' = r.h
             /\ lastOp' = Op("then", n, c, r, promises)
    /\ UNCHANGED <<hvars, rvars, xvars>>

\* finalize() on any node or, on a head constructed without a value,
\* finalize(value)
DoFinalize ==
    /\ UNCHANGED <<hvars, rvars, xvars>>
    /\ \E n \in 1..Len(promises), v \in {NO_RESULT} \cup FinalizeValues :
        LET r == Finalize(promises, <<>>, n, v)
        IN  /\ v # NO_RESULT => (n = 1 /\ promises[n].value = NO_RESULT)
            /\ Acted(promises, r)
            /\ promises' = r.h
            /\ lastOp' = Op("finalize", n, v, r, promises)

DoFail ==
    /\ UNCHANGED <<hvars, rvars, xvars>>
    /\ \E n \in 1..Len(promises), e \in DriverExceptions :
        LET r == Fail(promises, n, e)
        IN  /\ Acted(promises, r)
            /\ promises' = r.h
            /\ lastOp' = Op("fail", n, e, r, promises)

NextPromise == NewCompletion \/ DoThen \/ DoFinalize \/ DoFail

SpecPromise == InitPromise /\ [][NextPromise]_vars

\* process([c]) of the cephadm module on a node the driver holds:
\* `for p in completions: p.finalize()`, whatever the state of the node
DoProcess ==
    /\ UNCHANGED <<hvars, rvars, xvars>>
    /\ \E n \in 1..Len(promises) :
        LET r == Finalize(promises, <<>>, n, NO_RESULT)
        IN  /\ promises' = r.h
            /\ lastOp' = Op("process", n, None, r, promises)

\* a driver that builds a chain and only pumps it
NextPump == NewCompletion \/ DoThen \/ DoProcess

SpecPump == InitPromise /\ [][NextPump]_vars

\* C21: process() on a completion that is already FINISHED is safe: no
\* assertion fails, the node is not finalized again (nothing changes) and
\* no continuation is invoked.
C21_RepeatedPumpSafe ==
    (/\ lastOp.op = "process"
     /\ lastOp.pre[lastOp.node].state = FINISHED)
    => /\ lastOp.raised = None
       /\ lastOp.log = <<>>
       /\ promises = lastOp.pre

(***************************************************************************)
(* What a chain is expected to compute, stated without any node or link:   *)
(* the composition of its continuations, a chain continuation standing for *)
(* the composition of the continuations of the chain it returns.           *)
(***************************************************************************)
ChainConts_(c) ==
    (IF ChainFirst(c) # None THEN <<ChainFirst(c)>> ELSE <<>>) \o ChainThens(c)

RECURSIVE Compose(_, _)
Compose(cs, v) ==
    IF cs = <<>> \/ v = EXCEPTION_VALUE THEN v
    ELSE LET c == Head(cs)
             r == CASE ContKind(c) = "plain" -> Append(v, c)
                    [] ContKind(c) = "raise" -> EXCEPTION_VALUE
                    [] ContKind(c) = "chain" ->
                         Compose(ChainConts_(c),
                                 IF ChainValue(c, v) = NO_RESULT THEN v
                                 ELSE ChainValue(c, v))
         IN  Compose(Tail(cs), r)

RECURSIVE Raises(_)
Raises(cs) ==
    IF cs = <<>> THEN FALSE
    ELSE \/ ContKind(Head(cs)) = "raise"
         \/ ContKind(Head(cs)) = "chain" /\ Raises(ChainConts_(Head(cs)))
         \/ Raises(Tail(cs))

\* the continuations queued on the nodes of h, in chain order from node n
RECURSIVE QueuedConts(_, _)
QueuedConts(h, n) ==
    IF n = 0 THEN <<>>
    ELSE (IF h[n].on_complete # None THEN <<h[n].on_complete>> ELSE <<>>)
         \o QueuedConts(h, h[n].next)

AllState(h, ids, st) == \A i \in 1..Len(ids) : h[ids[i]].state = st

\* the last operation finalized the head of a chain none of whose nodes had
\* been finalized or failed
DrivenHead ==
    /\ lastOp.op = "finalize"
    /\ lastOp.node = 1
    /\ AllState(lastOp.pre, Iter(lastOp.pre, 1), INITIALIZED)

DrivenConts == QueuedConts(lastOp.pre, 1)
DrivenValue == IF lastOp.arg # NO_RESULT THEN lastOp.arg ELSE lastOp.pre[1].value
HasChainCont(cs) == \E i \in 1..Len(cs) : ContKind(cs[i]) = "chain"
LogConts == [i \in 1..Len(lastOp.log) |-> lastOp.log[i][2]]

\* C1: chain splice.  When the head of a chain whose continuations include
\* one that returns a secondary chain (2 or 3 levels deep) is finalized and
\* no continuation raises, finalize returns, every node is FINISHED and the
\* chain's result is the composed value: the secondary chain's final value,
\* passed through the continuations queued after it on the parent.
C1_ChainSplice ==
    (DrivenHead /\ HasChainCont(DrivenConts) /\ ~Raises(DrivenConts)) =>
        /\ lastOp.raised = None
        /\ AllState(promises, Iter(promises, 1), FINISHED)
        /\ Result(promises, 1) =
             [kind |-> "return", exc |-> None,
              val |-> Compose(DrivenConts, DrivenValue)]

C1_Witness ==
    /\ DrivenHead
    /\ Len(DrivenConts) = 2
    /\ DrivenConts[1] = "sub_sub"
    /\ DrivenConts[2] = "f"
    /\ Result(promises, 1).val = <<"v", "f", "g", "f">>

\* C2: under any sequence of then / finalize / fail calls a node never
\* leaves FINISHED, and the value and the exception of a FINISHED node never
\* change.
C2_FinishedImmutable ==
    [][\A n \in 1..Len(promises) :
          promises[n].state = FINISHED =>
            /\ promises'[n].state = FINISHED
            /\ promises'[n].value = promises[n].value
            /\ promises'[n].exception = promises[n].exception]_vars

\* C3: an exception raised inside a continuation never escapes finalize:
\* the only exception a call ever raises is an AssertionError, and when a
\* continuation of a chain being finalized from its head raises (at any
\* node, also one of a spliced chain), finalize returns and the chain is
\* failed with that exception.
C3_NoEscape ==
    /\ lastOp.raised \notin Exceptions
    /\ (DrivenHead /\ Raises(DrivenConts)) =>
         /\ lastOp.raised = None
         /\ HasResult(promises, 1)
         /\ IsErrored(promises, 1)
         /\ Exception(promises, 1) = "E1"
         /\ ContKind(LogConts[Len(LogConts)]) = "raise"

C3_Witness ==
    /\ DrivenHead
    /\ DrivenConts = <<"f", "sub_boom", "g">>
    /\ Exception(promises, 1) = "E1"
    /\ Len(promises) > Len(lastOp.pre)

\* C4: after fail(e) has returned, the node and every later node of the
\* chain is FINISHED and holds e, the chain reports is_errored with e, and
\* no continuation is invoked by fail nor, later, on a FINISHED node.
C4_FailPropagates ==
    /\ (lastOp.op = "fail" /\ lastOp.raised = None) =>
         /\ \A i \in 1..Len(Iter(promises, lastOp.node)) :
              LET n == Iter(promises, lastOp.node)[i]
              IN  /\ promises[n].state = FINISHED
                  /\ promises[n].exception = lastOp.arg
         /\ IsErrored(promises, 1)
         /\ Exception(promises, 1) = lastOp.arg
         /\ lastOp.log = <<>>
    /\ \A i \in 1..Len(lastOp.log) :
         lastOp.log[i][1] <= Len(lastOp.pre) =>
             lastOp.pre[lastOp.log[i][1]].state = INITIALIZED

C4_Witness ==
    /\ lastOp.op = "fail"
    /\ lastOp.raised = None
    /\ lastOp.node = 2
    /\ Len(promises) = 3
    /\ promises[1].state = INITIALIZED
    /\ promises[3].exception = "E2"

\* C5 as claimed: reading the result of a failed chain raises.
C5_ResultRaises ==
    (promises # <<>> /\ IsErrored(promises, 1)) => Result(promises, 1).kind = "raise"

\* the last operation made the chain fail: fail(e) returned, or a finalize
\* from the head converted a continuation's exception
JustFailed ==
    \/ lastOp.op = "fail" /\ lastOp.raised = None
    \/ DrivenHead /\ Raises(DrivenConts)

\* C5: right after a chain has failed, reading its result does not raise: it
\* returns the placeholder string 'exception'; the captured exception is
\* reported by exception / is_errored.
C5_ResultPlaceholder ==
    JustFailed =>
        /\ Result(promises, 1) =
             [kind |-> "return", exc |-> None, val |-> EXCEPTION_VALUE]
        /\ Exception(promises, 1) \in Exceptions

C5_Witness ==
    /\ JustFailed
    /\ lastOp.op = "finalize"
    /\ Result(promises, 1).val = EXCEPTION_VALUE
    /\ Len(promises) >= 2

\* C6: then() returns the new tail, and finalizing the head of a chain of
\* plain continuations f1 .. fk built on a value v finishes every node,
\* invokes f1 .. fk once each in chain order, each on the value of the one
\* before, and leaves fk(...f1(v)...) as the chain's result.
C6_ThenAndCompose ==
    /\ (lastOp.op = "then" /\ lastOp.raised = None) =>
         /\ lastOp.ret = Len(lastOp.pre) + 1
         /\ lastOp.ret = LastPromise(promises, 1)
         /\ promises[lastOp.node].next = lastOp.ret
    /\ (DrivenHead /\ \A i \in 1..Len(DrivenConts) : ContKind(DrivenConts[i]) = "plain") =>
         /\ lastOp.raised = None
         /\ AllState(promises, Iter(promises, 1), FINISHED)
         /\ LogConts = DrivenConts
         /\ \A i \in 1..Len(lastOp.log) :
              lastOp.log[i][3] = Compose(SubSeq(DrivenConts, 1, i - 1), DrivenValue)
         /\ Result(promises, 1) =
              [kind |-> "return", exc |-> None,
               val |-> Compose(DrivenConts, DrivenValue)]

C6_Witness ==
    /\ DrivenHead
    /\ DrivenConts = <<"g", "f">>
    /\ Len(promises) = 3
    /\ Result(promises, 1).val = <<"v", "g", "f">>

(***************************************************************************)
(* Host registry and per-host caches                                       *)
(*                                                                         *)
(* Times are seconds since 1970-01-01 00:00:00 UTC.  An optional time (or  *)
(* timeout) is a sequence: <<>> for None, <<t>> for the time t.  Within    *)
(* the range of the integers used here utcnow() - timedelta(seconds=t)     *)
(* stays a representable datetime, so outdated() never raises.             *)
(***************************************************************************)
Hosts == {"h1", "h2"}
Caches == {"devices", "services"}
\* parsed output of a remote scan
Payloads == {"d"}

\* number of times the clock advances
MaxTicks == 2
\* the clock at startup (2026-11-03 00:00:00 UTC)
StartClocks == {1793664000}
ClockStep == 300
Clocks == {s + k * ClockStep : s \in StartClocks, k \in 0..MaxTicks}
\* local time = UTC + utcoffset
UtcOffsets == {-3600, 0, 3600}
\* values of inventory_cache_timeout / service_cache_timeout
Timeouts == {<<>>, <<0>>, <<2000000000>>}

DEFAULT_TIMEOUT == 600
EPOCH == 0
NoTime == <<>>

\* OutdatableData(data, last_refresh)
OutdatableData(data, last_refresh, utcnow) ==
    [data |-> data,
     last_refresh |-> IF data # None /\ last_refresh = NoTime
                      THEN <<utcnow>> ELSE last_refresh]

\* strftime(DATEFMT) / strptime(.., DATEFMT): the text of a time
Strftime(t) == <<"%Y-%m-%d %H:%M:%S.%f", t[1]>>
TimeFromString(timestr) ==
    IF timestr = <<>> THEN NoTime ELSE <<timestr[2]>>

Json(od) ==
    [data |-> od.data,
     last_refresh |-> IF od.last_refresh # NoTime
                      THEN Strftime(od.last_refresh) ELSE <<>>]

FromJson(j, utcnow) ==
    OutdatableData(j.data, TimeFromString(j.last_refresh), utcnow)

\* datetime.datetime.fromtimestamp(0): the epoch as a naive local time
FromTimestamp(ts, offset) == <<ts + offset>>

Outdated(od, timeout, utcnow) ==
    LET t == IF timeout = <<>> THEN DEFAULT_TIMEOUT ELSE timeout[1]
    IN  IF od.last_refresh = NoTime
        THEN TRUE
        ELSE od.last_refresh[1] < utcnow - t

\* PersistentStoreDict (mgr_module): the key-value store of the manager, one
\* store key per host under the dict's prefix; storing None removes the key
StoreKeys(store) == DOMAIN store
StoreSet(store, key, val) ==
    [k \in DOMAIN store \cup {key} |-> IF k = key THEN val ELSE store[k]]
StoreDel(store, key) == [k \in DOMAIN store \ {key} |-> store[k]]

\* OutdatableDictMixin
GetItem(store, key, utcnow) == FromJson(store[key], utcnow)
SetItem(store, key, od) == StoreSet(store, key, Json(od))

Invalidate(store, key, utcnow, offset) ==
    SetItem(store, key,
            OutdatableData(GetItem(store, key, utcnow).data,
                           FromTimestamp(EPOCH, offset), utcnow))

\* __init__, "ensure the host lists are in sync"
SyncAdd(inv, cache, utcnow) ==
    [h \in DOMAIN cache \cup inv |->
        IF h \in StoreKeys(cache) THEN cache[h]
        ELSE Json(OutdatableData(None, NoTime, utcnow))]

SyncDel_KeepAll(inv, cache) == cache

SyncDel(inv, cache) ==
    [h \in {k \in StoreKeys(cache) : k \in inv} |-> cache[h]]

\* the last operation: its arguments, what it returned (hosts for get_hosts,
\* stale for outdated) or raised, and the operation before it
HostOp(op, host, cache, timeout, hosts, stale, raised) ==
    [op |-> op, host |-> host, cache |-> cache, timeout |-> timeout,
     hosts |-> hosts, stale |-> stale, raised |-> raised,
     prev |-> <<lastHostOp.op, lastHostOp.host, lastHostOp.raised>>]

\* the orders in which a store may list its keys
Orders(ks) ==
    {o \in [1..Cardinality(ks) -> ks] :
        \A i, j \in 1..Cardinality(ks) : i # j => o[i] # o[j]}

\* items(): the (key, entry) pairs in the order of the store
Items(store, order, utcnow) ==
    [i \in 1..Len(order) |-> <<order[i], GetItem(store, order[i], utcnow)>>]

\* items_filtered(keys): keys is None (<<>>) or a list ks (<<ks>>); an
\* empty list is false as a condition, as None is
ItemsFiltered_All(store, keys, order, utcnow) ==
    Items(store, order, utcnow)

ItemsFiltered(store, keys, order, utcnow) ==
    IF keys # <<>> /\ keys[1] # <<>>
    THEN [i \in 1..Len(keys[1]) |->
             <<keys[1][i], GetItem(store, keys[1][i], utcnow)>>]
    ELSE Items(store, order, utcnow)

\* what an earlier run of the module left in the store
Stored(ks) == [h \in ks |-> Json(OutdatableData(None, NoTime, 0))]

\* the module after __init__ on a store whose three host lists need not
\* agree (a run that ended between the writes of add_host / remove_host)
InitHosts ==
    /\ PromiseIdle
    /\ ExtIdle
    /\ ReconcileIdle
    /\ now \in StartClocks
    /\ utcoffset \in UtcOffsets
    /\ \E inv \in SUBSET Hosts, dk \in SUBSET Hosts, sk \in SUBSET Hosts :
         /\ inventory = inv
         /\ inventory_cache = SyncDel(inv, SyncAdd(inv, Stored(dk), now))
         /\ service_cache = SyncDel(inv, SyncAdd(inv, Stored(sk), now))
         /\ lastHostOp = [NoHostOp EXCEPT !.op = "__init__"]

AddHost ==
    /\ UNCHANGED <<pvars, rvars, xvars, now, utcoffset>>
    /\ \E h \in Hosts :
         /\ inventory' = inventory \cup {h}
         /\ inventory_cache' =
                SetItem(inventory_cache, h, OutdatableData(None, NoTime, now))
         /\ service_cache' =
                SetItem(service_cache, h, OutdatableData(None, NoTime, now))
         /\ lastHostOp' = HostOp("add_host", h, None, <<>>, {}, FALSE, None)

RemoveHost ==
    /\ UNCHANGED <<pvars, rvars, xvars, now, utcoffset>>
    /\ \E h \in Hosts :
         IF h \notin inventory
         THEN /\ UNCHANGED <<inventory, inventory_cache, service_cache>>
              /\ lastHostOp' =
                     HostOp("remove_host", h, None, <<>>, {}, FALSE, "KeyError")
         ELSE /\ inventory' = inventory \ {h}
              /\ inventory_cache' = StoreDel(inventory_cache, h)
              /\ service_cache' = StoreDel(service_cache, h)
              /\ lastHostOp' = HostOp("remove_host", h, None, <<>>, {}, FALSE, None)

GetHosts ==
    /\ UNCHANGED <<pvars, rvars, xvars, now, utcoffset>>
    /\ UNCHANGED <<inventory, inventory_cache, service_cache>>
    /\ lastHostOp' = HostOp("get_hosts", None, None, <<>>,
                             StoreKeys(inventory_cache), FALSE, None)

\* a remote scan of a host stores its result
RefreshHost ==
    /\ UNCHANGED <<pvars, rvars, xvars, now, utcoffset, inventory>>
    /\ \E c \in Caches, d \in Payloads :
         \E h \in StoreKeys(IF c = "devices" THEN inventory_cache
                            ELSE service_cache) :
            /\ IF c = "devices"
               THEN /\ inventory_cache' =
                           SetItem(inventory_cache, h,
                                   OutdatableData(d, NoTime, now))
                    /\ UNCHANGED service_cache
               ELSE /\ service_cache' =
                           SetItem(service_cache, h,
                                   OutdatableData(d, NoTime, now))
                    /\ UNCHANGED inventory_cache
            /\ lastHostOp' = HostOp("refresh", h, c, <<>>, {}, FALSE, None)

\* service_cache.invalidate(host), after a daemon of the host was changed
DoInvalidate ==
    /\ UNCHANGED <<pvars, rvars, xvars, now, utcoffset, inventory, inventory_cache>>
    /\ \E h \in StoreKeys(service_cache) :
         /\ service_cache' = Invalidate(service_cache, h, now, utcoffset)
         /\ lastHostOp' = HostOp("invalidate", h, "services", <<>>, {}, FALSE,
                                  None)

\* host_info.outdated(timeout) on an entry read from a cache
DoOutdated ==
    /\ UNCHANGED <<pvars, rvars, xvars, now, utcoffset>>
    /\ UNCHANGED <<inventory, inventory_cache, service_cache>>
    /\ \E c \in Caches, t \in Timeouts :
         \E h \in StoreKeys(IF c = "devices" THEN inventory_cache
                            ELSE service_cache) :
            LET store == IF c = "devices" THEN inventory_cache
                         ELSE service_cache
            IN  lastHostOp' =
                    HostOp("outdated", h, c, t, {},
                           Outdated(GetItem(store, h, now), t, now), None)

Tick ==
    /\ UNCHANGED <<pvars, rvars, xvars, utcoffset>>
    /\ UNCHANGED <<inventory, inventory_cache, service_cache>>
    /\ now + ClockStep \in Clocks
    /\ now' = now + ClockStep
    /\ lastHostOp' = HostOp("tick", None, None, <<>>, {}, FALSE, None)

NextHosts ==
    \/ AddHost
    \/ RemoveHost
    \/ GetHosts
    \/ RefreshHost
    \/ DoInvalidate
    \/ DoOutdated
    \/ Tick

SpecHosts == InitHosts /\ [][NextHosts]_vars

(***************************************************************************)
(* Claims about the host registry and the caches                           *)
(***************************************************************************)

\* C7: at startup and after every add_host / remove_host the host registry,
\* the inventory cache and the service cache have the same key set, and
\* get_hosts returns exactly that set.
C7_KeySetsInSync ==
    /\ StoreKeys(inventory_cache) = inventory
    /\ StoreKeys(service_cache) = inventory
    /\ lastHostOp.op = "get_hosts" => lastHostOp.hosts = inventory

\* get_hosts right after a host was removed, with a host left
C7_Witness ==
    /\ lastHostOp.op = "get_hosts"
    /\ lastHostOp.prev = <<"remove_host", "h2", None>>
    /\ lastHostOp.hosts = {"h1"}

\* C8: the staleness check made on a host's service cache entry right after
\* invalidate(host) is true, whatever the timeout.
C8_StaleAfterInvalidate ==
    (/\ lastHostOp.op = "outdated"
     /\ lastHostOp.cache = "services"
     /\ lastHostOp.prev = <<"invalidate", lastHostOp.host, None>>)
    => lastHostOp.stale

(***************************************************************************)
(* Reconciling a service to a desired count                                *)
(*                                                                         *)
(* A daemon name is the sequence of its dot-separated parts: "fs.aaaaaa"   *)
(* is <<"fs", "aaaaaa">>; no name (None, '') is <<>>.  A pass is the API   *)
(* call together with the finalization of the chain it returns.  The       *)
(* listing a pass starts with is the daemons the hosts actually run, every *)
(* host being registered, and every remote call succeeds.                  *)
(***************************************************************************)
\* the services _update_service reconciles: with a name prefix (mds; rgw
\* takes the same path) and without one (rbd-mirror)
UpdateServiceTypes == {"mds", "rbd-mirror"}
\* the six random letters of get_unique_name
RandomNames == {"aaaaaa", "bbbbbb"}
\* names a caller gives in a placement
ExplicitNames == {<<"x">>}
NoName == <<>>

\* daemons the cluster may run
MaxDaemons == 2
\* largest desired count
MaxCount == 2

\* HostSpec / placement node (hostname, network, name)
Nodes == [hostname : Hosts, name : {NoName} \cup ExplicitNames]
\* placements: every host at most once
NodeLists ==
    {nodes \in UNION {[1..n -> Nodes] : n \in 0..Cardinality(Hosts)} :
        \A i, j \in 1..Len(nodes) :
            i # j => nodes[i].hostname # nodes[j].hostname}

\* spec.name of an update of the service type
SpecNames(service_type) ==
    IF service_type = "rbd-mirror" THEN {None} ELSE {"fs"}

\* prefix the add function of the service type passes to get_unique_name
NamePrefix(service_type, spec_name) ==
    IF service_type = "rbd-mirror" THEN None ELSE spec_name

\* orchestrator.ServiceDescription
ServiceDescription(service_type, service_instance, nodename) ==
    [service_type |-> service_type, service_instance |-> service_instance,
     nodename |-> nodename]

Instances(ds) == {ds[i].service_instance : i \in 1..Len(ds)}

\* service_instance.startswith(service_name + '.')
StartsWith(service_instance, service_name) ==
    Len(service_instance) >= 2 /\ service_instance[1] = service_name

\* _get_services(service_type, service_name=...)
GetServices(ds, service_type, service_name) ==
    LET keep(d) ==
            /\ d.service_type = service_type
            /\ service_name # None
                   => StartsWith(d.service_instance, service_name)
    IN  SelectSeq(ds, keep)

RandomName(prefix, r) == IF prefix # None THEN <<prefix, r>> ELSE <<r>>

\* get_unique_name: the names it may return; with a forcename in use it
\* raises and returns none
GetUniqueName(existing, prefix, forcename) ==
    IF forcename # NoName
    THEN IF forcename \in Instances(existing) THEN {} ELSE {forcename}
    ELSE {RandomName(prefix, r) : r \in RandomNames} \ Instances(existing)

\* outcome of a pass: the create and remove calls it issued, what it raised,
\* and the names it read from the mgr map (none unless it removes managers)
Outcome(created, removed, raised) ==
    [created |-> created, removed |-> removed, raised |-> raised,
     connected |-> {}]

\* the loop of _add_mds / _add_rgw / _add_rbd_mirror over placement.nodes
RECURSIVE PlaceNew(_, _, _, _, _, _)
PlaceNew(service_type, ds, nodes, count, prefix, args) ==
    IF nodes = <<>> \/ Len(args) >= count
    THEN {Outcome(args, <<>>, None)}
    ELSE LET node == Head(nodes)
             names == GetUniqueName(ds, prefix, node.name)
         IN  IF node.name # NoName /\ names = {}
             THEN {Outcome(<<>>, <<>>, "RuntimeError")}
             ELSE UNION {
                    LET sd == ServiceDescription(service_type, n, node.hostname)
                    IN  PlaceNew(service_type, Append(ds, sd), Tail(nodes),
                                 count, prefix, Append(args, sd))
                    : n \in names}

\* add_mds / add_rgw / add_rbd_mirror
AddService(all, service_type, spec_name, count, nodes) ==
    IF nodes = <<>> \/ Len(nodes) < count
    THEN {Outcome(<<>>, <<>>, "RuntimeError")}
    ELSE PlaceNew(service_type, GetServices(all, service_type, None), nodes,
                  count, NamePrefix(service_type, spec_name), <<>>)

\* _update_service
UpdateServiceOutcomes(all, service_type, spec_name, count, nodes) ==
    LET ds == GetServices(all, service_type, spec_name)
    IN  IF Len(ds) > count
        THEN {Outcome(<<>>, SubSeq(ds, 1, Len(ds) - count), None)}
        ELSE IF Len(ds) < count
        THEN AddService(all, service_type, spec_name, count - Len(ds), nodes)
        ELSE {Outcome(<<>>, <<>>, None)}

\* _update_mgrs, first loop: daemons the mgr map does not know
RECURSIVE RemoveUnconnected(_, _, _, _)
RemoveUnconnected(ds, connected, num_to_remove, acc) ==
    IF ds = <<>> \/ num_to_remove = 0
    THEN [to_remove |-> acc, num_to_remove |-> num_to_remove]
    ELSE IF Head(ds).service_instance \notin connected
    THEN RemoveUnconnected(Tail(ds), connected, num_to_remove - 1,
                           Append(acc, Head(ds)))
    ELSE RemoveUnconnected(Tail(ds), connected, num_to_remove, acc)

\* _update_mgrs, second loop: "otherwise, remove *any* mgr"
RECURSIVE RemoveAny(_, _, _)
RemoveAny(ds, num_to_remove, acc) ==
    IF ds = <<>> \/ num_to_remove = 0
    THEN acc
    ELSE RemoveAny(Tail(ds), num_to_remove - 1, Append(acc, Head(ds)))

\* _update_mgrs, the loop that names the new managers
RECURSIVE PlaceMgrs(_, _, _)
PlaceMgrs(ds, host_specs, args) ==
    IF host_specs = <<>>
    THEN {Outcome(args, <<>>, None)}
    ELSE LET host_spec == Head(host_specs)
             names == IF host_spec.name # NoName
                      THEN {host_spec.name}
                      ELSE GetUniqueName(ds, None, NoName)
         IN  UNION {
                PlaceMgrs(ds, Tail(host_specs),
                          Append(args, ServiceDescription("mgr", n,
                                                          host_spec.hostname)))
                : n \in names}

\* a removal that takes the managers from the head of the list, in the mgr
\* map or not
RemoveMgrs_AnyFirst(ds, num_to_remove, connected) ==
    [Outcome(<<>>, RemoveAny(ds, num_to_remove, <<>>), None)
        EXCEPT !.connected = connected]

\* _update_mgrs, num < num_mgrs, with the active and standby names of the
\* mgr map
RemoveMgrs(ds, num_to_remove, connected) ==
    LET first == RemoveUnconnected(ds, connected, num_to_remove, <<>>)
    IN  [Outcome(<<>>,
                 RemoveAny(ds, first.num_to_remove, first.to_remove), None)
            EXCEPT !.connected = connected]

\* _update_mgrs; the mgr map may name any of the managers
UpdateMgrsOutcomes(ds, num, host_specs) ==
    LET num_mgrs == Len(ds)
    IN  IF num = num_mgrs
        THEN {Outcome(<<>>, <<>>, None)}
        ELSE IF num < num_mgrs
        THEN {RemoveMgrs(ds, num_mgrs - num, connected) :
                  connected \in SUBSET Instances(ds)}
        ELSE IF Len(host_specs) < num - num_mgrs
        THEN {Outcome(<<>>, <<>>, "RuntimeError")}
        ELSE IF \E i \in 1..Len(host_specs) :
                    /\ host_specs[i].name # NoName
                    /\ host_specs[i].name \in Instances(ds)
        THEN {Outcome(<<>>, <<>>, "RuntimeError")}
        ELSE PlaceMgrs(ds, host_specs, <<>>)

\* update_mons with the monitors of the mon map, every placement naming a
\* network; a monitor without a name is named after its host
UpdateMonsOutcomes(ds, num, host_specs) ==
    LET num_mons == Len(ds)
        mon(host_spec) ==
            ServiceDescription("mon",
                               IF host_spec.name # NoName THEN host_spec.name
                               ELSE <<host_spec.hostname>>,
                               host_spec.hostname)
    IN  IF num = num_mons
        THEN {Outcome(<<>>, <<>>, None)}
        ELSE IF num < num_mons
        THEN {Outcome(<<>>, <<>>, "NotImplementedError")}
        ELSE IF \E i \in 1..Len(host_specs) :
                    /\ host_specs[i].name # NoName
                    /\ host_specs[i].name \in Instances(ds)
        THEN {Outcome(<<>>, <<>>, "RuntimeError")}
        ELSE IF Len(host_specs) < num - num_mons
        THEN {Outcome(<<>>, <<>>, "RuntimeError")}
        ELSE {Outcome([i \in 1..Len(host_specs) |-> mon(host_specs[i])],
                      <<>>, None)}

\* _create_daemon: deploy; deploying a daemon a host already runs redeploys it
RECURSIVE CreateDaemons(_, _)
CreateDaemons(all, args) ==
    IF args = <<>> THEN all
    ELSE CreateDaemons(IF InSeq(Head(args), all) THEN all
                       ELSE Append(all, Head(args)),
                       Tail(args))

\* _remove_daemon: rm-daemon of every (name, host) given
RemoveDaemons(all, args) ==
    LET keep(d) == ~InSeq(d, args)
    IN  SelectSeq(all, keep)

\* the last pass: its request, the instance names of the service type it
\* started with, the number of daemons it compared the count with, the
\* remote calls it issued, and whether its request is the request of the
\* pass before it
\* ___update_service: spec.count of the caller's spec once the pass is done
\* ("add some": spec.count -= len(daemons))
SpecCount(count, observed) ==
    IF observed < count THEN count - observed ELSE count

\* the record of a pass; update_mgrs and update_mons take their number as
\* an int, which the callee cannot change
Pass(op, service_type, spec_name, count, nodes, out, ds, observed) ==
    [op |-> op, service_type |-> service_type, spec_name |-> spec_name,
     count |-> count, nodes |-> nodes, created |-> out.created,
     removed |-> out.removed, raised |-> out.raised,
     existing |-> Instances(ds),
     observed |-> observed, connected |-> out.connected,
     spec_count |-> IF op = "update_service" THEN SpecCount(count, observed)
                    ELSE count,
     repeated |-> /\ lastPass.op = op
                  /\ lastPass.service_type = service_type
                  /\ lastPass.spec_name = spec_name
                  /\ lastPass.count = count
                  /\ lastPass.nodes = nodes]

\* passes on different service types do not see each other's daemons: the
\* cluster of a behaviour runs daemons of one service type
OnlyType(all, service_type) ==
    \A i \in 1..Len(all) : all[i].service_type = service_type

InitReconcile ==
    /\ ExtIdle
    /\ PromiseIdle
    /\ HostsIdle
    /\ ReconcileIdle

\* update_mgrs(num, host_specs)
UpdateMgrs ==
    /\ UNCHANGED <<pvars, hvars, xvars>>
    /\ OnlyType(daemons, "mgr")
    /\ \E num \in 0..MaxCount, host_specs \in NodeLists :
         LET ds == GetServices(daemons, "mgr", None)
         IN  \E out \in UpdateMgrsOutcomes(ds, num, host_specs) :
                  LET after == RemoveDaemons(
                                   CreateDaemons(daemons, out.created),
                                   out.removed)
                  IN  /\ Len(after) <= MaxDaemons
                      /\ daemons' = after
                      /\ lastPass' = Pass("update_mgrs", "mgr", None, num,
                                          host_specs, out, ds, Len(ds))

\* update_mds(spec) / update_rbd_mirror(spec)
UpdateService ==
    /\ UNCHANGED <<pvars, hvars, xvars>>
    /\ \E service_type \in UpdateServiceTypes, count \in 0..MaxCount,
          nodes \in NodeLists :
         \E spec_name \in SpecNames(service_type) :
           /\ OnlyType(daemons, service_type)
           /\ \E out \in UpdateServiceOutcomes(daemons, service_type, spec_name,
                                            count, nodes) :
              LET after == RemoveDaemons(CreateDaemons(daemons, out.created),
                                         out.removed)
              IN  /\ Len(after) <= MaxDaemons
                  /\ daemons' = after
                  /\ lastPass' =
                         Pass("update_service", service_type, spec_name, count,
                              nodes, out,
                              GetServices(daemons, service_type, None),
                              Len(GetServices(daemons, service_type,
                                              spec_name)))

\* update_mons(num, host_specs)
UpdateMons ==
    /\ UNCHANGED <<pvars, hvars, xvars>>
    /\ OnlyType(daemons, "mon")
    /\ \E num \in 0..MaxCount, host_specs \in NodeLists :
         LET ds == GetServices(daemons, "mon", None)
         IN  \E out \in UpdateMonsOutcomes(ds, num, host_specs) :
                  LET after == CreateDaemons(daemons, out.created)
                  IN  /\ Len(after) <= MaxDaemons
                      /\ daemons' = after
                      /\ lastPass' = Pass("update_mons", "mon", None, num,
                                          host_specs, out, ds, Len(ds))

NextReconcile ==
    \/ UpdateMgrs
    \/ UpdateService
    \/ UpdateMons

SpecReconcile == InitReconcile /\ [][NextReconcile]_vars

(***************************************************************************)
(* Claims about reconciliation                                             *)
(***************************************************************************)
\* C9: a pass that repeats the request of the pass before it (same service,
\* same desired count, same placement) issues no remote create and no remote
\* remove call.
C9_SecondPassIdle ==
    lastPass.repeated
    => (lastPass.created = <<>> /\ lastPass.removed = <<>>)

\* C10: the names a pass gives to the instances it creates, none of them
\* named by the caller, are pairwise distinct and differ from the names of
\* the instances that existed before the pass.
C10_UniqueNames ==
    (/\ lastPass.op # "none"
     /\ \A i \in 1..Len(lastPass.nodes) : lastPass.nodes[i].name = NoName)
    => /\ \A i, j \in 1..Len(lastPass.created) :
             i # j => lastPass.created[i].service_instance
                          # lastPass.created[j].service_instance
       /\ \A i \in 1..Len(lastPass.created) :
             lastPass.created[i].service_instance
                 \notin lastPass.existing

\* a pass that found fewer daemons than desired and was given placement
\* entries enough for the difference
ScaleUp ==
    /\ lastPass.op # "none"
    /\ lastPass.observed < lastPass.count
    /\ Len(lastPass.nodes) >= lastPass.count - lastPass.observed

\* C23: a pass that finds fewer daemons than desired and is given at least
\* desired - observed placement entries issues exactly desired - observed
\* daemon creations, whatever the number of placement entries and whatever
\* the service (mon, mgr, mds, rgw, rbd-mirror).
C23_MinimalCreations ==
    ScaleUp => Len(lastPass.created) = lastPass.count - lastPass.observed

\* a pass that found more daemons than desired
ScaleDown ==
    /\ lastPass.op \in {"update_mgrs", "update_service"}
    /\ lastPass.observed > lastPass.count

\* C24: a pass that finds more daemons than desired selects for removal
\* exactly observed - desired daemons of the service, no daemon twice.
C24_DistinctRemovals ==
    ScaleDown
    => /\ Len(lastPass.removed) = lastPass.observed - lastPass.count
       /\ \A i, j \in 1..Len(lastPass.removed) :
             i # j => lastPass.removed[i] # lastPass.removed[j]
       /\ \A i \in 1..Len(lastPass.removed) :
             /\ lastPass.removed[i].service_type = lastPass.service_type
             /\ lastPass.removed[i].service_instance \in lastPass.existing

\* C25: a pass that scales the managers down selects a manager the mgr map
\* names (active or standby) only if it has selected every observed manager
\* the mgr map does not name.
C25_UnconnectedFirst ==
    (lastPass.op = "update_mgrs" /\ lastPass.observed > lastPass.count)
    => ((\E i \in 1..Len(lastPass.removed) :
            lastPass.removed[i].service_instance \in lastPass.connected)
        => \A n \in lastPass.existing \ lastPass.connected :
               n \in Instances(lastPass.removed))

\* a connected manager was selected although an unconnected one was
\* observed
C25_Witness ==
    /\ lastPass.op = "update_mgrs"
    /\ lastPass.observed > lastPass.count
    /\ lastPass.existing \ lastPass.connected # {}
    /\ \E i \in 1..Len(lastPass.removed) :
          lastPass.removed[i].service_instance \in lastPass.connected

\* a scale-up request with fewer placement entries than desired - observed,
\* or with a placement entry whose name is the name of an instance the pass
\* found
InvalidScaleUp ==
    /\ lastPass.op # "none"
    /\ lastPass.observed < lastPass.count
    /\ \/ Len(lastPass.nodes) < lastPass.count - lastPass.observed
       \/ \E i \in 1..Len(lastPass.nodes) :
             /\ lastPass.nodes[i].name # NoName
             /\ lastPass.nodes[i].name \in lastPass.existing

\* C26: an invalid scale-up request fails with an error and issues no
\* daemon create and no daemon remove call.
C26_InvalidScaleUpFails ==
    InvalidScaleUp
    => /\ lastPass.raised # None
       /\ lastPass.created = <<>>
       /\ lastPass.removed = <<>>

\* C37: a pass of update_mds / update_rgw / update_rbd_mirror leaves the
\* count of the caller's spec as it was.
C37_SpecCountUnchanged ==
    lastPass.op = "update_service" => lastPass.spec_count = lastPass.count

(***************************************************************************)
(* Upgrade state                                                           *)
(*                                                                         *)
(* self.upgrade_state is None or a dict: None is <<>>, a dict d is <<d>>   *)
(* with d a function from its keys to their values, so that a key is       *)
(* present or absent as in the dict.  Strings built from parts are the     *)
(* sequences of their parts: 'ceph/ceph' + ':v' + '15' is                  *)
(* <<"ceph/ceph", ":v", "15">>, which is also what the image name          *)
(* 'ceph/ceph:v15' is.  A message is its format and its arguments.         *)
(***************************************************************************)
\* the image and version arguments of upgrade_start: None or a string
UpgradeImages == {<<>>, <<<<"image_id">>>>, <<<<"ceph/ceph", ":v", "15">>>>}
UpgradeVersions == {<<>>, <<<<"15">>>>}
container_image_base == <<"ceph/ceph">>
\* what `cephadm pull` prints for an image: 'image_id,ceph_version'
PullIds == {"id1", "id2"}
PullVersions == {"15.0"}
PullResults ==
    {[ok |-> TRUE, id |-> i, ver |-> v] : i \in PullIds, v \in PullVersions}
    \cup {[ok |-> FALSE, id |-> "", ver |-> ""]}
\* self.get_mgr_id()
MgrId == "x"
\* the daemons a listing of the cluster may show to the upgrade
MaxUpgradeDaemons == 2
UpgradeDaemonNames ==
    {<<"mgr", "x">>, <<"mgr", "y">>, <<"osd", "0">>, <<"rgw", "r">>}
UpgradeDaemons ==
    {[service_type |-> n[1], service_instance |-> n[2],
      container_image_id |-> i] : n \in UpgradeDaemonNames, i \in PullIds}
UpgradeDaemonLists ==
    {ds \in UNION {[1..k -> UpgradeDaemons] : k \in 0..MaxUpgradeDaemons} :
        \A i, j \in 1..Len(ds) :
            i < j => <<ds[i].service_type, ds[i].service_instance>>
                     # <<ds[j].service_type, ds[j].service_instance>>}
\* len(mgr_map.get('standbys'))
StandbyCounts == {0, 1}
OrchestratorError == "OrchestratorError"
RuntimeError == "RuntimeError"
TypeError == "TypeError"

\* dict operations
DictHas(d, k) == k \in DOMAIN d
DictSet(d, k, v) == [x \in DOMAIN d \cup {k} |-> IF x = k THEN v ELSE d[x]]
DictDel(d, k) == [x \in DOMAIN d \ {k} |-> d[x]]
\* a loop that takes no state for paused
IsPaused_Never(d) == FALSE
\* self.upgrade_state.get('paused') taken as a condition
IsPaused(d) == DictHas(d, "paused") /\ d["paused"] = TRUE

\* json.dumps / json.loads of None or of a dict of strings and True
JsonDumps(s) ==
    IF s = <<>> THEN [text |-> "null", members |-> [k \in {} |-> None]]
    ELSE [text |-> "{..}", members |-> s[1]]
JsonLoads(t) ==
    IF t.text = "null" THEN <<>> ELSE <<t.members>>

\* MgrModule.set_store / get_store on the key 'upgrade_state'
SetStore(val) == <<val>>
GetStore(store) == store

\* __init__: t = self.get_store('upgrade_state'); json.loads(t) if t
LoadUpgradeState(store) ==
    IF GetStore(store) # <<>> THEN JsonLoads(GetStore(store)[1]) ELSE <<>>

\* the outcome of a call: the new self.upgrade_state, whether
\* _save_upgrade_state() ran, the message returned or the exception raised,
\* and whether a remote pull was issued
URes(state, save, fmt, args, raised, pulled) ==
    [state |-> state, save |-> save, fmt |-> fmt, args |-> args,
     raised |-> raised, pulled |-> pulled]

\* '%s' of None or of a string
Str(opt) == IF opt = <<>> THEN <<"None">> ELSE opt[1]

\* upgrade_start / upgrade_check: the target image name
HasTarget(image, version) == version # <<>> \/ image # <<>>
TargetName(image, version) ==
    IF version # <<>> THEN container_image_base \o <<":v">> \o version[1]
    ELSE image[1]

\* _get_container_image_id: the first host of the inventory cache runs pull
GetContainerImageId(hosts, pull) ==
    IF hosts = {} THEN [raised |-> OrchestratorError, pulled |-> FALSE]
    ELSE IF ~pull.ok THEN [raised |-> RuntimeError, pulled |-> TRUE]
    ELSE [raised |-> None, pulled |-> TRUE]

UpgradeStart_Replace(state, image, version, hosts, pull) ==
    LET target_name == TargetName(image, version)
        got == GetContainerImageId(hosts, pull)
    IN  IF ~HasTarget(image, version)
        THEN URes(state, FALSE, "", <<>>, OrchestratorError, FALSE)
        ELSE IF got.raised # None
        THEN URes(state, FALSE, "", <<>>, got.raised, got.pulled)
        ELSE URes(<<[target_name |-> target_name, target_id |-> pull.id,
                     target_version |-> pull.ver]>>, TRUE,
                  "Initiating upgrade to %s %s", <<Str(image), <<pull.id>>>>,
                  None, TRUE)

UpgradeStart_KeepPaused(state, image, version, hosts, pull) ==
    LET target_name == TargetName(image, version)
        got == GetContainerImageId(hosts, pull)
    IN  IF ~HasTarget(image, version)
        THEN URes(state, FALSE, "", <<>>, OrchestratorError, FALSE)
        ELSE IF state # <<>>
        THEN IF state[1]["target_name"] # target_name
             THEN URes(state, FALSE, "", <<>>, OrchestratorError, FALSE)
             ELSE URes(state, FALSE, "Upgrade to %s in progress",
                       <<state[1]["target_name"]>>, None, FALSE)
        ELSE IF got.raised # None
        THEN URes(state, FALSE, "", <<>>, got.raised, got.pulled)
        ELSE URes(<<[target_name |-> target_name, target_id |-> pull.id,
                     target_version |-> pull.ver]>>, TRUE,
                  "Initiating upgrade to %s %s", <<Str(image), <<pull.id>>>>,
                  None, TRUE)

UpgradeStart(state, image, version, hosts, pull) ==
    LET target_name == TargetName(image, version)
        got == GetContainerImageId(hosts, pull)
    IN  IF ~HasTarget(image, version)
        THEN URes(state, FALSE, "", <<>>, OrchestratorError, FALSE)
        ELSE IF state # <<>>
        THEN IF state[1]["target_name"] # target_name
             THEN URes(state, FALSE, "", <<>>, OrchestratorError, FALSE)
             ELSE IF IsPaused(state[1])
             THEN URes(<<DictDel(state[1], "paused")>>, TRUE,
                       "Resumed upgrade to %s", <<state[1]["target_name"]>>,
                       None, FALSE)
             ELSE URes(state, FALSE, "Upgrade to %s in progress",
                       <<state[1]["target_name"]>>, None, FALSE)
        ELSE IF got.raised # None
        THEN URes(state, FALSE, "", <<>>, got.raised, got.pulled)
        ELSE URes(<<[target_name |-> target_name, target_id |-> pull.id,
                     target_version |-> pull.ver]>>, TRUE,
                  "Initiating upgrade to %s %s", <<Str(image), <<pull.id>>>>,
                  None, TRUE)

UpgradePause_DropTarget(state) ==
    IF state = <<>>
    THEN URes(state, FALSE, "", <<>>, OrchestratorError, FALSE)
    ELSE IF IsPaused(state[1])
    THEN URes(state, FALSE, "Upgrade to %s already paused",
              <<state[1]["target_name"]>>, None, FALSE)
    ELSE URes(<<[paused |-> TRUE]>>, TRUE, "Paused upgrade to %s",
              <<state[1]["target_name"]>>, None, FALSE)

UpgradePause(state) ==
    IF state = <<>>
    THEN URes(state, FALSE, "", <<>>, OrchestratorError, FALSE)
    ELSE IF IsPaused(state[1])
    THEN URes(state, FALSE, "Upgrade to %s already paused",
              <<state[1]["target_name"]>>, None, FALSE)
    ELSE URes(<<DictSet(state[1], "paused", TRUE)>>, TRUE,
              "Paused upgrade to %s", <<state[1]["target_name"]>>, None, FALSE)

UpgradeResume(state) ==
    IF state = <<>>
    THEN URes(state, FALSE, "", <<>>, OrchestratorError, FALSE)
    ELSE IF ~IsPaused(state[1])
    THEN URes(state, FALSE, "Upgrade to %s not paused",
              <<state[1]["target_name"]>>, None, FALSE)
    ELSE URes(<<DictDel(state[1], "paused")>>, TRUE,
              "Resumed upgrade to %s", <<state[1]["target_name"]>>, None, FALSE)

UpgradeStop(state) ==
    IF state = <<>>
    THEN URes(state, FALSE, "No upgrade in progress", <<>>, None, FALSE)
    ELSE URes(<<>>, TRUE, "Stopped upgrade to %s",
              <<state[1]["target_name"]>>, None, FALSE)

\* upgrade_status: the UpgradeStatusSpec returned; target_image is set only
\* while an upgrade is in progress
UpgradeStatus(state) ==
    IF state = <<>>
    THEN [target_image |-> <<>>, in_progress |-> FALSE, message |-> ""]
    ELSE [target_image |-> <<state[1]["target_name"]>>, in_progress |-> TRUE,
          message |-> IF IsPaused(state[1]) THEN "Upgrade paused" ELSE ""]

\* an upgrade that goes through the daemon types backwards
UpgradeOrder_Reversed == <<"mds", "rgw", "osd", "mon", "mgr">>
\* _do_upgrade, the order in which daemon types are brought to the target
UpgradeOrder == <<"mgr", "mon", "osd", "rgw", "mds">>
\* the types whose daemons are asked 'ok-to-stop' first
OkToStopTypes == {"mon", "osd", "mds"}

IsSelf(d) == d.service_type = "mgr" /\ d.service_instance = MgrId

\* the daemons of a type that the inner loop would redeploy
Stale(ds, daemon_type, target_id) ==
    {i \in 1..Len(ds) :
        /\ ds[i].service_type = daemon_type
        /\ ~IsSelf(ds[i])
        /\ ds[i].container_image_id # target_id}

NeedUpgradeSelf(ds, daemon_type) ==
    \E i \in 1..Len(ds) : ds[i].service_type = daemon_type /\ IsSelf(ds[i])

\* the daemon _service_action(..., 'redeploy') is called for: the first of
\* the list among the stale daemons of the type
Redeployed(ds, stale) ==
    LET i == CHOOSE i \in stale : \A j \in stale : i <= j
    IN  <<<<ds[i].service_type, ds[i].service_instance>>>>

\* _do_upgrade(daemons) from daemon type number k on.  Both branches of the
\* ok-to-stop loop format their message with
\*     '... %s.%s' % daemon_type, s.service_instance
\* which raises TypeError (one argument for two %s) before anything else.
RECURSIVE DoUpgradeFrom(_, _, _, _, _)
DoUpgradeFrom(state, ds, standbys, redeploy_ok, k) ==
    IF k > Len(UpgradeOrder)
    THEN URes(<<>>, TRUE, "complete", <<>>, None, FALSE)
    ELSE
    LET daemon_type == UpgradeOrder[k]
        stale == Stale(ds, daemon_type, state[1]["target_id"])
    IN  IF stale # {}
        THEN IF daemon_type \in OkToStopTypes
             THEN URes(state, FALSE, "ok-to-stop", <<>>, TypeError, FALSE)
             ELSE IF redeploy_ok
             THEN URes(state, FALSE, "redeploy", Redeployed(ds, stale), None,
                       TRUE)
             ELSE URes(state, FALSE, "redeploy", Redeployed(ds, stale),
                       RuntimeError, TRUE)
        ELSE IF NeedUpgradeSelf(ds, daemon_type)
        THEN IF standbys = 0
             THEN URes(<<DictSet(state[1], "error",
                                 <<"No standby mgrs and mgr.%s needs to be upgraded",
                                   MgrId>>)>>,
                       FALSE, "suspend", <<>>, None, FALSE)
             ELSE URes(state, FALSE, "mgr fail", <<>>, None, FALSE)
        ELSE DoUpgradeFrom(state, ds, standbys, redeploy_ok, k + 1)

\* an upgrade that starts its turn at rgw
DoUpgrade_FromRgw(state, ds, standbys, redeploy_ok) ==
    IF state = <<>>
    THEN URes(state, FALSE, "no state", <<>>, None, FALSE)
    ELSE DoUpgradeFrom(state, ds, standbys, redeploy_ok, 4)

DoUpgrade(state, ds, standbys, redeploy_ok) ==
    IF state = <<>>
    THEN URes(state, FALSE, "no state", <<>>, None, FALSE)
    ELSE DoUpgradeFrom(state, ds, standbys, redeploy_ok, 1)

\* the record of a call
UpgradeOp(op, image, version, r, status, ds) ==
    [op |-> op, image |-> image, version |-> version, fmt |-> r.fmt,
     args |-> r.args, raised |-> r.raised, status |-> status,
     pulled |-> r.pulled, daemons |-> ds, before |-> upgrade_state,
     stored |-> upgrade_store]

\* a call takes effect: the new state, saved if the call saved it
Effect(r) ==
    /\ upgrade_state' = r.state
    /\ upgrade_store' = IF r.save THEN SetStore(JsonDumps(r.state))
                        ELSE upgrade_store

\* the module after __init__, with no host or one host registered and with
\* whatever an earlier run left under 'upgrade_state'
StoredUpgrades ==
    {<<>>, SetStore(JsonDumps(<<>>)),
     SetStore(JsonDumps(<<[target_name |-> <<"image_id">>, target_id |-> "id1",
                           target_version |-> "15.0"]>>)),
     SetStore(JsonDumps(<<[target_name |-> <<"image_id">>, target_id |-> "id1",
                           target_version |-> "15.0", paused |-> TRUE]>>))}

InitUpgrade ==
    /\ PromiseIdle
    /\ ServicesIdle
    /\ LoopIdle
    /\ ScanIdle
    /\ ThreadsIdle
    /\ WaitIdle
    /\ ReconcileIdle
    /\ RemoteIdle
    /\ now \in StartClocks
    /\ utcoffset = 0
    /\ \E inv \in {{}, {"h1"}} :
         /\ inventory = inv
         /\ inventory_cache = SyncDel(inv, SyncAdd(inv, EmptyDict, now))
         /\ service_cache = SyncDel(inv, SyncAdd(inv, EmptyDict, now))
    /\ lastHostOp = [NoHostOp EXCEPT !.op = "__init__"]
    /\ upgrade_store \in StoredUpgrades
    /\ upgrade_state = LoadUpgradeState(upgrade_store)
    /\ serve_running = TRUE
    /\ lastUpgradeOp = [NoUpgradeOp EXCEPT !.op = "__init__"]

DoUpgradeStart ==
    /\ UNCHANGED <<pvars, hvars, rvars, cvars, svars, lvars, gvars, tvars, wvars, serve_running>>
    /\ \E image \in UpgradeImages, version \in UpgradeVersions,
          pull \in PullResults :
         LET r == UpgradeStart(upgrade_state, image, version,
                               StoreKeys(inventory_cache), pull)
         IN  /\ Effect(r)
             /\ lastUpgradeOp' =
                    UpgradeOp("upgrade_start", image, version, r, <<>>, <<>>)

DoUpgradeStatus ==
    /\ UNCHANGED <<pvars, hvars, rvars, cvars, svars, lvars, gvars, tvars, wvars, serve_running>>
    /\ UNCHANGED <<upgrade_state, upgrade_store>>
    /\ lastUpgradeOp' =
           UpgradeOp("upgrade_status", <<>>, <<>>,
                     URes(upgrade_state, FALSE, "", <<>>, None, FALSE),
                     <<UpgradeStatus(upgrade_state)>>, <<>>)

DoUpgradePause ==
    /\ UNCHANGED <<pvars, hvars, rvars, cvars, svars, lvars, gvars, tvars, wvars, serve_running>>
    /\ LET r == UpgradePause(upgrade_state)
       IN  /\ Effect(r)
           /\ lastUpgradeOp' =
                  UpgradeOp("upgrade_pause", <<>>, <<>>, r, <<>>, <<>>)

DoUpgradeResume ==
    /\ UNCHANGED <<pvars, hvars, rvars, cvars, svars, lvars, gvars, tvars, wvars, serve_running>>
    /\ LET r == UpgradeResume(upgrade_state)
       IN  /\ Effect(r)
           /\ lastUpgradeOp' =
                  UpgradeOp("upgrade_resume", <<>>, <<>>, r, <<>>, <<>>)

DoUpgradeStop ==
    /\ UNCHANGED <<pvars, hvars, rvars, cvars, svars, lvars, gvars, tvars, wvars, serve_running>>
    /\ LET r == UpgradeStop(upgrade_state)
       IN  /\ Effect(r)
           /\ lastUpgradeOp' =
                  UpgradeOp("upgrade_stop", <<>>, <<>>, r, <<>>, <<>>)

\* serve(): one turn of `while self.upgrade_state and not paused`: list the
\* daemons, then _do_upgrade(daemons).  An exception ends serve().
ServeUpgrade ==
    /\ UNCHANGED <<pvars, hvars, rvars, cvars, svars, lvars, gvars, tvars, wvars>>
    /\ serve_running
    /\ upgrade_state # <<>>
    /\ ~IsPaused(upgrade_state[1])
    /\ \E ds \in UpgradeDaemonLists :
         \E r \in {DoUpgrade(upgrade_state, ds, standbys, redeploy_ok) :
                       standbys \in StandbyCounts, redeploy_ok \in BOOLEAN} :
             /\ Effect(r)
             /\ serve_running' = (r.raised = None)
             /\ lastUpgradeOp' =
                    UpgradeOp("_do_upgrade", <<>>, <<>>, r, <<>>, ds)

\* the manager restarts: __init__ reloads the stored state, serve() starts
Restart ==
    /\ UNCHANGED <<pvars, hvars, rvars, cvars, svars, lvars, gvars, tvars, wvars, upgrade_store>>
    /\ lastUpgradeOp.op # "__init__"
    /\ upgrade_state' = LoadUpgradeState(upgrade_store)
    /\ serve_running' = TRUE
    /\ lastUpgradeOp' =
           UpgradeOp("__init__", <<>>, <<>>,
                     URes(upgrade_state, FALSE, "", <<>>, None, FALSE),
                     <<>>, <<>>)

NextUpgrade ==
    \/ DoUpgradeStart
    \/ DoUpgradeStatus
    \/ DoUpgradePause
    \/ DoUpgradeResume
    \/ DoUpgradeStop
    \/ ServeUpgrade
    \/ Restart

SpecUpgrade == InitUpgrade /\ [][NextUpgrade]_vars

(***************************************************************************)
(* Claims about the upgrade state                                          *)
(***************************************************************************)
TargetFields == {"target_name", "target_id", "target_version"}

\* the value stored under 'upgrade_state', read back as __init__ reads it
Persisted == LoadUpgradeState(upgrade_store)

\* the last call was upgrade_start(image, version) naming a target while an
\* upgrade was in progress
StartDuringUpgrade ==
    /\ lastUpgradeOp.op = "upgrade_start"
    /\ lastUpgradeOp.before # <<>>
    /\ HasTarget(lastUpgradeOp.image, lastUpgradeOp.version)

\* C11: upgrade_start naming another target than the upgrade in progress
\* raises OrchestratorError, issues no pull, and leaves self.upgrade_state
\* and the stored 'upgrade_state' as they were.
C11_StartOtherTargetFails ==
    (/\ StartDuringUpgrade
     /\ TargetName(lastUpgradeOp.image, lastUpgradeOp.version)
            # lastUpgradeOp.before[1]["target_name"])
    => /\ lastUpgradeOp.raised = OrchestratorError
       /\ ~lastUpgradeOp.pulled
       /\ upgrade_state = lastUpgradeOp.before
       /\ upgrade_store = lastUpgradeOp.stored

C11_Witness ==
    /\ lastUpgradeOp.op = "upgrade_start"
    /\ lastUpgradeOp.image = <<<<"ceph/ceph", ":v", "15">>>>
    /\ lastUpgradeOp.version = <<>>
    /\ lastUpgradeOp.before # <<>>
    /\ lastUpgradeOp.before[1]["target_name"] = <<"image_id">>
    /\ lastUpgradeOp.raised = OrchestratorError
    /\ upgrade_state = lastUpgradeOp.before

\* C12: upgrade_start naming the target of a paused upgrade returns, removes
\* the 'paused' key and changes nothing else of the state.
C12_StartSameTargetResumes ==
    (/\ StartDuringUpgrade
     /\ TargetName(lastUpgradeOp.image, lastUpgradeOp.version)
            = lastUpgradeOp.before[1]["target_name"]
     /\ IsPaused(lastUpgradeOp.before[1]))
    => /\ lastUpgradeOp.raised = None
       /\ upgrade_state # <<>>
       /\ ~DictHas(upgrade_state[1], "paused")
       /\ upgrade_state[1] = DictDel(lastUpgradeOp.before[1], "paused")
       /\ \A k \in TargetFields :
            upgrade_state[1][k] = lastUpgradeOp.before[1][k]

C12_Witness ==
    /\ lastUpgradeOp.op = "upgrade_start"
    /\ lastUpgradeOp.version = <<<<"15">>>>
    /\ lastUpgradeOp.before # <<>>
    /\ IsPaused(lastUpgradeOp.before[1])
    /\ lastUpgradeOp.fmt = "Resumed upgrade to %s"
    /\ upgrade_state # <<>>
    /\ upgrade_state[1]["target_name"] = <<"ceph/ceph", ":v", "15">>
    /\ ~IsPaused(upgrade_state[1])

\* C13: after every call that changed self.upgrade_state (upgrade_start,
\* pause, resume, stop, a _do_upgrade step), the value stored under
\* 'upgrade_state' reads back as the state in memory.
C13_PersistedEqualsMemory ==
    (/\ lastUpgradeOp.op \notin {"none", "__init__"}
     /\ upgrade_state # lastUpgradeOp.before)
    => Persisted = upgrade_state

\* the last call was upgrade_pause or upgrade_resume
PauseOrResume == lastUpgradeOp.op \in {"upgrade_pause", "upgrade_resume"}

\* upgrade_status after a successful upgrade_start(T) reports T
StatusReportsTarget ==
    /\ (lastUpgradeOp.op = "upgrade_start" /\ lastUpgradeOp.raised = None)
       => /\ upgrade_state # <<>>
          /\ UpgradeStatus(upgrade_state).target_image
                = <<TargetName(lastUpgradeOp.image, lastUpgradeOp.version)>>
          /\ UpgradeStatus(upgrade_state).in_progress
    /\ (lastUpgradeOp.op = "upgrade_status" /\ lastUpgradeOp.before # <<>>)
       => lastUpgradeOp.status[1].target_image
             = <<lastUpgradeOp.before[1]["target_name"]>>

\* pause and resume of an upgrade in progress return and change at most the
\* 'paused' key
PauseResumeFrame ==
    (PauseOrResume /\ lastUpgradeOp.before # <<>>)
    => /\ lastUpgradeOp.raised = None
       /\ upgrade_state # <<>>
       /\ DictDel(upgrade_state[1], "paused")
             = DictDel(lastUpgradeOp.before[1], "paused")
       /\ IsPaused(upgrade_state[1]) = (lastUpgradeOp.op = "upgrade_pause")

\* with no upgrade in progress pause and resume raise and create no state
PauseResumeNeedUpgrade ==
    (PauseOrResume /\ lastUpgradeOp.before = <<>>)
    => /\ lastUpgradeOp.raised = OrchestratorError
       /\ upgrade_state = <<>>
       /\ upgrade_store = lastUpgradeOp.stored

\* C17 as stated: upgrade_status reports the target, pause and resume change
\* only the paused flag, every pause of an upgrade to T replies
\* 'Paused upgrade to T', and without an upgrade pause and resume fail.
C17_PauseAlwaysRepliesPaused ==
    /\ StatusReportsTarget
    /\ PauseResumeFrame
    /\ PauseResumeNeedUpgrade
    /\ (lastUpgradeOp.op = "upgrade_pause" /\ lastUpgradeOp.before # <<>>)
       => /\ lastUpgradeOp.fmt = "Paused upgrade to %s"
          /\ lastUpgradeOp.args = <<lastUpgradeOp.before[1]["target_name"]>>

\* C17, amended: as above, but a pause replies 'Paused upgrade to T' when
\* the upgrade was not paused and 'Upgrade to T already paused' when it was.
C17_PauseResumeOnlyPaused ==
    /\ StatusReportsTarget
    /\ PauseResumeFrame
    /\ PauseResumeNeedUpgrade
    /\ (lastUpgradeOp.op = "upgrade_pause" /\ lastUpgradeOp.before # <<>>)
       => /\ lastUpgradeOp.fmt =
                IF IsPaused(lastUpgradeOp.before[1])
                THEN "Upgrade to %s already paused"
                ELSE "Paused upgrade to %s"
          /\ lastUpgradeOp.args = <<lastUpgradeOp.before[1]["target_name"]>>

C17_Witness ==
    /\ lastUpgradeOp.op = "upgrade_pause"
    /\ lastUpgradeOp.before # <<>>
    /\ ~IsPaused(lastUpgradeOp.before[1])
    /\ lastUpgradeOp.fmt = "Paused upgrade to %s"
    /\ lastUpgradeOp.args = <<<<"image_id">>>>
    /\ upgrade_state # <<>>
    /\ IsPaused(upgrade_state[1])
    /\ upgrade_state[1]["target_id"] = "id2"

\* the place of a daemon type in the rollout order mgr, mon, osd, rgw, mds
TypeRank(t) ==
    CASE t = "mgr" -> 1 [] t = "mon" -> 2 [] t = "osd" -> 3
      [] t = "rgw" -> 4 [] t = "mds" -> 5

\* the last call was an upgrade turn of the control loop that called for a
\* redeploy
RedeployTurn ==
    /\ lastUpgradeOp.op = "_do_upgrade"
    /\ lastUpgradeOp.fmt = "redeploy"

\* the listed daemons that do not run the target image of the turn
OffTarget ==
    {i \in 1..Len(lastUpgradeOp.daemons) :
        lastUpgradeOp.daemons[i].container_image_id
            # lastUpgradeOp.before[1]["target_id"]}

NameOf(d) == <<d.service_type, d.service_instance>>

\* C29: a turn redeploys a daemon only if every listed daemon of a type
\* earlier in the order mgr, mon, osd, rgw, mds, the active manager itself
\* excepted, runs the target image.
C29_TypeByType ==
    RedeployTurn
    => \A i \in OffTarget :
          LET d == lastUpgradeOp.daemons[i]
          IN  \/ IsSelf(d)
              \/ TypeRank(d.service_type)
                     >= TypeRank(lastUpgradeOp.args[1][1])

\* a daemon of a later type is redeployed, daemons of earlier types being
\* listed
C29_Witness ==
    /\ RedeployTurn
    /\ lastUpgradeOp.args[1][1] = "rgw"
    /\ \E i \in 1..Len(lastUpgradeOp.daemons) :
          /\ ~IsSelf(lastUpgradeOp.daemons[i])
          /\ TypeRank(lastUpgradeOp.daemons[i].service_type) < 4

\* daemon number i of the listing is the first of the daemons in `among`: no
\* daemon of `among` has an earlier type, or the same type and an earlier
\* place in the listing
FirstOf(i, among) ==
    /\ i \in among
    /\ \A j \in among :
          LET di == lastUpgradeOp.daemons[i]
              dj == lastUpgradeOp.daemons[j]
          IN  \/ TypeRank(dj.service_type) > TypeRank(di.service_type)
              \/ /\ dj.service_type = di.service_type
                 /\ j >= i

\* C30 as stated: a turn redeploys at most one daemon, and a daemon it
\* redeploys is the first daemon, in type order, whose image id differs from
\* the target.
C30_FirstOffTarget ==
    RedeployTurn
    => /\ Len(lastUpgradeOp.args) = 1
       /\ \E i \in OffTarget :
             /\ FirstOf(i, OffTarget)
             /\ NameOf(lastUpgradeOp.daemons[i]) = lastUpgradeOp.args[1]

\* C30: a turn redeploys at most one daemon, and a daemon it redeploys is the
\* first daemon, in type order, other than the active manager itself, whose
\* image id differs from the target; every turn, the turn after a redeploy
\* included, looks at the types from mgr on.
C30_FirstOffTargetButSelf ==
    RedeployTurn
    => /\ Len(lastUpgradeOp.args) = 1
       /\ LET others == {i \in OffTarget :
                            ~IsSelf(lastUpgradeOp.daemons[i])}
          IN  \E i \in others :
                 /\ FirstOf(i, others)
                 /\ NameOf(lastUpgradeOp.daemons[i]) = lastUpgradeOp.args[1]

\* a turn redeploys a daemon that is not the first of the listing, a daemon
\* of a later type off the target being listed before it
C30_Witness ==
    /\ RedeployTurn
    /\ \E i, j \in OffTarget :
          /\ i < j
          /\ NameOf(lastUpgradeOp.daemons[j]) = lastUpgradeOp.args[1]
          /\ TypeRank(lastUpgradeOp.daemons[i].service_type)
                 > TypeRank(lastUpgradeOp.daemons[j].service_type)

MaxLeaked == 1
\* the steps at which a remote call may fail: Connection(..) raises,
\* import_module raises, process.check raises, the command exits nonzero
FailPoints == {"connect", "import_module", "check", "exit_code"}
ConnectionError == "ConnectionError"
\* inventory_cache_timeout (MODULE_OPTIONS)
inventory_cache_timeout == 600

RangeOf(seq) == {seq[i] : i \in 1..Len(seq)}

\* the state a remote call works on: the hosts of the open connections, the
\* inventory cache, the hosts commands were run on, the first exception
RState(conns, icache, commands, raised) ==
    [conns |-> conns, icache |-> icache, commands |-> commands,
     raised |-> raised]

Raise(st, e) == [st EXCEPT !.raised = IF st.raised = None THEN e ELSE @]
Leak(st, host) == [st EXCEPT !.conns = Append(@, host)]
Issue(st, host) == [st EXCEPT !.commands = Append(@, host)]

\* what the caller does with the output of a successful command
AfterRun(st, host, effect, utcnow, offset) ==
    IF effect = "set_inventory"
    THEN [st EXCEPT !.icache =
              SetItem(@, host, OutdatableData("d", NoTime, utcnow))]
    ELSE st

\* _run_cephadm(host, ...) failing at step `fail` ("none": no failure), then
\* the caller's use of the result
RunCephadm(st, host, error_ok, fail, effect, utcnow, offset) ==
    IF fail = "connect" THEN Raise(st, ConnectionError)
    ELSE IF fail = "import_module" THEN Raise(Leak(st, host), ConnectionError)
    ELSE IF fail = "check" THEN Raise(Issue(st, host), ConnectionError)
    ELSE IF fail = "exit_code" /\ ~error_ok
    THEN Raise(Issue(st, host), RuntimeError)
    ELSE AfterRun(Issue(st, host), host, effect, utcnow, offset)

\* blink(host, dev): a nonzero exit is tolerated by _run_cephadm and turned
\* into a RuntimeError by blink itself
Blink(st, host, fail, utcnow, offset) ==
    IF fail = "exit_code"
    THEN Raise(Issue(st, host), RuntimeError)
    ELSE RunCephadm(st, host, TRUE, fail, "none", utcnow, offset)

\* one element of an operation applied to a list
Call(kind, host) == [kind |-> kind, host |-> host]

RunCall(st, call, fail, utcnow, offset) ==
    IF call.kind = "blink" THEN Blink(st, call.host, fail, utcnow, offset)
    ELSE RunCephadm(st, call.host, FALSE, fail, call.kind, utcnow, offset)

\* an @async_map_completion function applied to a list: the worker runs the
\* function on every element, in order; an element that raises fails the
\* completion and the others still run
RECURSIVE MapCalls(_, _, _, _, _, _, _)
MapCalls(st, calls, i, failAt, fail, utcnow, offset) ==
    IF i > Len(calls) THEN st
    ELSE MapCalls(RunCall(st, calls[i], IF i = failAt THEN fail ELSE "none",
                          utcnow, offset),
                  calls, i + 1, failAt, fail, utcnow, offset)

\* _require_hosts(hosts)
RequireHosts(icache, hosts) == RangeOf(hosts) \subseteq StoreKeys(icache)

\* _get_inventory over the pairs of _get_hosts: a scan for every entry that
\* is outdated, or for every entry on refresh
InventoryCalls(pairs, refresh, utcnow) ==
    LET stale == {i \in 1..Len(pairs) :
                     refresh \/ Outdated(pairs[i][2],
                                         <<inventory_cache_timeout>>, utcnow)}
        F[i \in 0..Len(pairs)] ==
            IF i = 0 THEN <<>>
            ELSE IF i \in stale
                 THEN Append(F[i - 1], Call("set_inventory", pairs[i][1]))
                 ELSE F[i - 1]
    IN  F[Len(pairs)]

\* get_inventory(node_filter, refresh): node_filter is None (<<>>) or an
\* InventoryFilter with the list nodes (<<nodes>>)
GetInventory(st, node_filter, refresh, order, failAt, fail, utcnow, offset) ==
    IF node_filter # <<>> /\ ~RequireHosts(st.icache, node_filter[1])
    THEN [st |-> Raise(st, RuntimeError), items |-> <<>>]
    ELSE LET pairs == ItemsFiltered(st.icache, node_filter, order, utcnow)
         IN  [st |-> MapCalls(st, InventoryCalls(pairs, refresh, utcnow), 1,
                              failAt, fail, utcnow, offset),
              items |-> pairs]

\* blink_device_light(ident_fault, on, locs): blink for every (host, dev)
BlinkDeviceLight(st, locs, failAt, fail, utcnow, offset) ==
    MapCalls(st, [i \in 1..Len(locs) |-> Call("blink", locs[i])], 1,
             failAt, fail, utcnow, offset)

\* _check_host(host): cephadm check-host
CheckHost(st, host, fail, utcnow, offset) ==
    RunCephadm(st, host, TRUE, fail, "none", utcnow, offset)

\* the hosts an operation may name, registered or not
HostLists ==
    {<<>>} \cup {<<h>> : h \in Hosts}
    \cup {p \in Hosts \X Hosts : p[1] # p[2]}
NodeFilters == {<<>>} \cup {<<ns>> : ns \in HostLists}

RemoteOp(op, hosts, filter, st, items) ==
    [op |-> op, hosts |-> hosts, filter |-> filter, raised |-> st.raised,
     commands |-> st.commands, items |-> items]

Start == RState(connections, inventory_cache, <<>>, None)

\* the failures a model run draws: none, or step `fail` of the failAt-th
\* remote call; a step that leaves a connection open is drawn only while
\* few are open
MaxCalls == 2
Failures ==
    {<<0, "none">>} \cup {<<k, f>> : k \in 1..MaxCalls, f \in FailPoints}

Done(st) ==
    /\ Len(st.conns) <= MaxLeaked
    /\ connections' = st.conns
    /\ inventory_cache' = st.icache
    /\ service_cache' = service_cache

\* the hosts registered at startup
Registries == {{"h1"}, {"h1", "h2"}}

InitRemote ==
    /\ PromiseIdle
    /\ ServicesIdle
    /\ LoopIdle
    /\ ScanIdle
    /\ ThreadsIdle
    /\ WaitIdle
    /\ ReconcileIdle
    /\ UpgradeIdle
    /\ now \in StartClocks
    /\ utcoffset = 0
    /\ \E inv \in Registries :
         /\ inventory = inv
         /\ inventory_cache = SyncDel(inv, SyncAdd(inv, EmptyDict, now))
         /\ service_cache = SyncDel(inv, SyncAdd(inv, EmptyDict, now))
    /\ lastHostOp = [NoHostOp EXCEPT !.op = "__init__"]
    /\ connections = <<>>
    /\ lastRemoteOp = [NoRemoteOp EXCEPT !.op = "__init__"]

DoCheckHost ==
    /\ UNCHANGED <<pvars, rvars, uvars, wvars, tvars, svars, lvars, gvars, inventory, now,
                 utcoffset, lastHostOp>>
    /\ \E h \in Hosts, f \in Failures :
         LET st == CheckHost(Start, h, f[2], now, utcoffset)
         IN  /\ f[1] <= 1
             /\ Done(st)
             /\ lastRemoteOp' = RemoteOp("check_host", <<h>>, <<>>, st, <<>>)

DoGetInventory ==
    /\ UNCHANGED <<pvars, rvars, uvars, wvars, tvars, svars, lvars, gvars, inventory, now,
                 utcoffset, lastHostOp>>
    /\ \E nf \in NodeFilters, refresh \in BOOLEAN, f \in Failures,
          order \in Orders(StoreKeys(inventory_cache)) :
         LET r == GetInventory(Start, nf, refresh, order, f[1], f[2], now,
                               utcoffset)
         IN  /\ f[1] <= Len(r.st.commands) + 1
             /\ Done(r.st)
             /\ lastRemoteOp' =
                    RemoteOp("get_inventory",
                             IF nf = <<>> THEN <<>> ELSE nf[1], nf, r.st,
                             r.items)

DoBlinkDeviceLight ==
    /\ UNCHANGED <<pvars, rvars, uvars, wvars, tvars, svars, lvars, gvars, inventory, now,
                 utcoffset, lastHostOp>>
    /\ \E locs \in HostLists, f \in Failures :
         LET st == BlinkDeviceLight(Start, locs, f[1], f[2], now, utcoffset)
         IN  /\ f[1] <= Len(locs)
             /\ Done(st)
             /\ lastRemoteOp' =
                    RemoteOp("blink_device_light", locs, <<>>, st, <<>>)

NextRemote ==
    \/ DoCheckHost
    \/ DoGetInventory
    \/ DoBlinkDeviceLight

SpecRemote == InitRemote /\ [][NextRemote]_vars

(***************************************************************************)
(* Claims on remote execution and the per-host operations                  *)
(***************************************************************************)
\* the operations that take the hosts they work on from the caller
PerHostOps == {"get_inventory", "blink_device_light"}
\* the last operation named a host that is not registered
NamedUnregistered ==
    /\ lastRemoteOp.op \in PerHostOps
    /\ ~(RangeOf(lastRemoteOp.hosts) \subseteq StoreKeys(inventory_cache))

\* C14: after any sequence of remote calls, successful or failing at any
\* step, no connection remains open.
C14_NoConnectionLeft == connections = <<>>

\* C15: a per-host operation that names a host absent from the registry
\* fails, and no remote command is run for it.
C15_UnregisteredFailsFirst ==
    NamedUnregistered =>
        /\ lastRemoteOp.raised # None
        /\ lastRemoteOp.commands = <<>>

\* C16: items_filtered, as get_inventory calls it on the inventory cache,
\* returns every (host, entry) pair of the cache once when no list of hosts
\* is given, and when a list is given exactly the pairs of its hosts, in
\* the order of the list.
C16_ItemsFiltered ==
    [][(/\ lastRemoteOp'.op = "get_inventory"
        /\ (lastRemoteOp'.filter # <<>> =>
                RequireHosts(inventory_cache, lastRemoteOp'.filter[1])))
       => LET items == lastRemoteOp'.items
              keys == lastRemoteOp'.filter
          IN  IF keys = <<>>
              THEN /\ RangeOf(items) =
                          {<<h, GetItem(inventory_cache, h, now)>> :
                              h \in StoreKeys(inventory_cache)}
                   /\ Len(items) = Cardinality(StoreKeys(inventory_cache))
              ELSE items =
                       [i \in 1..Len(keys[1]) |->
                           <<keys[1][i],
                             GetItem(inventory_cache, keys[1][i], now)>>]]_vars

(***************************************************************************)
(* The synchronous wait helper                                             *)
(*                                                                         *)
(* A caller thread runs _orchestrator_wait(completions) while the single   *)
(* thread of the worker pool runs the tasks submitted to it.  A completion *)
(* is seen through its last node, as has_result, is_errored and            *)
(* needs_result see it.  Its chain has a number of asynchronous steps; a   *)
(* chain with none is completed inline by the first finalize().            *)
(***************************************************************************)
\* completions in one call of _orchestrator_wait
MaxCompletions == 2
\* asynchronous steps in the chain of one completion
MaxSteps == 2
\* calls of process() that are counted
MaxPumps == 3

RUNNING == "RUNNING"
\* the chain failed: the last node has its exception, not yet its state
FAILING == "FAILING"

\* a completion: the state of its chain, whether the last node holds an
\* exception, the asynchronous steps left, whether an inline step raises
WaitCompletion(state, errored, left, raises) ==
    [state |-> state, errored |-> errored, left |-> left, raises |-> raises]

\* the completions a caller may hold: not yet started, or finished earlier
CallerCompletions ==
    {WaitCompletion(INITIALIZED, FALSE, n, r) :
        n \in 0..MaxSteps, r \in BOOLEAN}
    \cup {WaitCompletion(FINISHED, e, 0, FALSE) : e \in BOOLEAN}

\* Completion.has_result
has_result(c) == c.state = FINISHED
\* Completion.is_errored
is_errored(c) == c.errored
\* Completion.needs_result
needs_result(c) == ~is_errored(c) /\ ~has_result(c)
\* Completion.is_finished
is_finished(c) == is_errored(c) \/ has_result(c)

\* the condition of the while loop
Pending_All(cs) == \A i \in 1..Len(cs) : ~has_result(cs[i])

Pending(cs) == \E i \in 1..Len(cs) : ~has_result(cs[i])

\* the condition of the sleep
AnyNeedsResult(cs) == \E i \in 1..Len(cs) : needs_result(cs[i])

\* finalize() of the pump on one completion: a chain that was not started
\* is started; its inline steps run to the end, or its first asynchronous
\* step is submitted to the pool.  A chain that was started is left alone.
PumpOne(c) ==
    IF c.state # INITIALIZED THEN c
    ELSE IF c.left = 0
    THEN WaitCompletion(FINISHED, c.raises, 0, c.raises)
    ELSE [c EXCEPT !.state = RUNNING]

Submitted(before, after) ==
    SelectSeq([i \in 1..Len(before) |-> i],
              LAMBDA i : before[i].state = INITIALIZED /\ after[i].state = RUNNING)

\* process(completions): finalize() on every completion, in order
Process(cs) == [i \in 1..Len(cs) |-> PumpOne(cs[i])]

InitWait ==
    /\ PromiseIdle
    /\ ServicesIdle
    /\ LoopIdle
    /\ ScanIdle
    /\ ThreadsIdle
    /\ HostsIdle
    /\ ReconcileIdle
    /\ UpgradeIdle
    /\ RemoteIdle
    /\ \E n \in 1..MaxCompletions :
         wait_completions \in [1..n -> CallerCompletions]
    /\ pool = <<>>
    /\ wait_pc = "while"
    /\ pumps = 0

\* while any(not c.has_result for c in completions):
WaitWhile ==
    /\ wait_pc = "while"
    /\ wait_pc' = IF Pending(wait_completions) THEN "process" ELSE "return"
    /\ UNCHANGED <<pvars, hvars, rvars, uvars, cvars, tvars, svars, lvars, gvars>>
    /\ UNCHANGED <<wait_completions, pool, pumps>>

\* self.process(completions)
WaitProcess ==
    /\ wait_pc = "process"
    /\ wait_completions' = Process(wait_completions)
    /\ pool' = pool \o Submitted(wait_completions, wait_completions')
    /\ pumps' = IF pumps < MaxPumps THEN pumps + 1 ELSE pumps
    /\ wait_pc' = "if"
    /\ UNCHANGED <<pvars, hvars, rvars, uvars, cvars, tvars, svars, lvars, gvars>>

\* if any(c.needs_result for c in completions): time.sleep(1) else: break
WaitIf ==
    /\ wait_pc = "if"
    /\ wait_pc' = IF AnyNeedsResult(wait_completions) THEN "sleep" ELSE "return"
    /\ UNCHANGED <<pvars, hvars, rvars, uvars, cvars, tvars, svars, lvars, gvars>>
    /\ UNCHANGED <<wait_completions, pool, pumps>>

\* time.sleep(1) returns
WaitSleep ==
    /\ wait_pc = "sleep"
    /\ wait_pc' = "while"
    /\ UNCHANGED <<pvars, hvars, rvars, uvars, cvars, tvars, svars, lvars, gvars>>
    /\ UNCHANGED <<wait_completions, pool, pumps>>

\* the worker runs the task at the head of its queue.  The step returns:
\* callback finalizes the node, which completes the chain or submits the
\* next step.  Or it raises: error_callback fails the chain, the last node
\* gets the exception.
WorkerRun ==
    /\ pool # <<>>
    /\ LET i == Head(pool)
           c == wait_completions[i]
       IN  \E raised \in BOOLEAN :
             IF raised
             THEN /\ wait_completions' =
                        [wait_completions EXCEPT ![i] =
                            WaitCompletion(FAILING, TRUE, 0, FALSE)]
                  /\ pool' = Tail(pool)
             ELSE IF c.left = 1
             THEN /\ wait_completions' =
                        [wait_completions EXCEPT ![i] =
                            WaitCompletion(FINISHED, c.raises, 0, c.raises)]
                  /\ pool' = Tail(pool)
             ELSE /\ wait_completions' =
                        [wait_completions EXCEPT ![i].left = @ - 1]
                  /\ pool' = Append(Tail(pool), i)
    /\ UNCHANGED <<pvars, hvars, rvars, uvars, cvars, tvars, svars, lvars, gvars>>
    /\ UNCHANGED <<wait_pc, pumps>>

\* fail(e), its last assignment: self._state = self.FINISHED
WorkerFailed ==
    /\ \E i \in 1..Len(wait_completions) :
         /\ wait_completions[i].state = FAILING
         /\ wait_completions' =
                [wait_completions EXCEPT ![i].state = FINISHED]
    /\ UNCHANGED <<pvars, hvars, rvars, uvars, cvars, tvars, svars, lvars, gvars>>
    /\ UNCHANGED <<pool, wait_pc, pumps>>

Waiter == WaitWhile \/ WaitProcess \/ WaitIf \/ WaitSleep
Worker == WorkerRun \/ WorkerFailed

NextWait ==
    \/ WaitWhile
    \/ WaitProcess
    \/ WaitIf
    \/ WaitSleep
    \/ WorkerRun
    \/ WorkerFailed

SpecWait == InitWait /\ [][NextWait]_vars

\* the caller's thread keeps running, sleep(1) returns, and the thread of
\* the pool runs a queued task to its end
FairSpecWait == SpecWait /\ WF_vars(Waiter) /\ WF_vars(Worker)

(***************************************************************************)
(* Claims on the wait helper                                               *)
(***************************************************************************)
WaitReturned == wait_pc = "return"
AllSettled ==
    \A i \in 1..Len(wait_completions) : is_finished(wait_completions[i])

MaxTasks == 2

UpgradeObject == "upgrade_state"
CacheObject == "service_cache"

\* the positions at which a thread is inside _run_cephadm
ExecPcs == {"pull", "run", "deploy"}
Executing == {t \in Threads : thr_pc[t] \in ExecPcs}

\* the threads that have read an object and have still to write it
MidReadWrite(object) ==
    IF object = UpgradeObject
    THEN {t \in Threads : thr_pc[t] \in {"pull", "error", "complete"}}
    ELSE {t \in Threads : thr_pc[t] = "invalidate"}

\* a write of `thread` to `object`, and the other threads it interrupts
Write(thread, object) ==
    [thread |-> thread, object |-> object,
     during |-> MidReadWrite(object) \ {thread}]

\* the alternatives of _do_upgrade once it has read the state: redeploy a
\* daemon, record the error of the missing standby, finish the upgrade
UpgradePaths == {"deploy", "error", "complete"}

InitThreads ==
    /\ PromiseIdle
    /\ ServicesIdle
    /\ LoopIdle
    /\ ScanIdle
    /\ HostsIdle
    /\ ReconcileIdle
    /\ UpgradeIdle
    /\ RemoteIdle
    /\ WaitIdle
    /\ thr_pc = [t \in Threads |-> "idle"]
    /\ pool_q = <<>>
    /\ submitted = 0
    /\ completed = 0
    /\ serve_wait = 0
    /\ upg \in {"none", "active", "paused"}
    /\ lastWrite = NoWrite

Others == <<pvars, hvars, rvars, uvars, cvars, wvars, svars, lvars, gvars>>

\* an API call that lists daemons with a refresh (describe_service, or the
\* _get_services of a placement call): _refresh_host_services goes to the pool
ApiSubmit ==
    /\ thr_pc["api"] = "idle"
    /\ submitted < MaxTasks
    /\ submitted' = submitted + 1
    /\ pool_q' = Append(pool_q, submitted + 1)
    /\ UNCHANGED <<thr_pc, completed, serve_wait, upg, lastWrite, Others>>

\* upgrade_start with no upgrade in progress: _get_container_image_id runs
\* the pull on the calling thread
ApiStartPull ==
    /\ thr_pc["api"] = "idle"
    /\ upg = "none"
    /\ thr_pc' = [thr_pc EXCEPT !["api"] = "pull"]
    /\ UNCHANGED <<pool_q, submitted, completed, serve_wait, upg, lastWrite,
                   Others>>

\* upgrade_start: the pull has returned, the state is assigned and saved
ApiStartSet ==
    /\ thr_pc["api"] = "pull"
    /\ thr_pc' = [thr_pc EXCEPT !["api"] = "idle"]
    /\ upg' = "active"
    /\ lastWrite' = Write("api", UpgradeObject)
    /\ UNCHANGED <<pool_q, submitted, completed, serve_wait, Others>>

\* upgrade_pause of an active upgrade
ApiPause ==
    /\ thr_pc["api"] = "idle"
    /\ upg = "active"
    /\ upg' = "paused"
    /\ lastWrite' = Write("api", UpgradeObject)
    /\ UNCHANGED <<thr_pc, pool_q, submitted, completed, serve_wait, Others>>

\* upgrade_resume, or upgrade_start with the target of the paused upgrade
ApiResume ==
    /\ thr_pc["api"] = "idle"
    /\ upg = "paused"
    /\ upg' = "active"
    /\ lastWrite' = Write("api", UpgradeObject)
    /\ UNCHANGED <<thr_pc, pool_q, submitted, completed, serve_wait, Others>>

\* upgrade_stop
ApiStop ==
    /\ thr_pc["api"] = "idle"
    /\ upg # "none"
    /\ upg' = "none"
    /\ lastWrite' = Write("api", UpgradeObject)
    /\ UNCHANGED <<thr_pc, pool_q, submitted, completed, serve_wait, Others>>

\* the pool's thread takes the task at the head of the queue and enters
\* _run_cephadm
WorkerBegin ==
    /\ thr_pc["worker"] = "idle"
    /\ pool_q # <<>>
    /\ thr_pc' = [thr_pc EXCEPT !["worker"] = "run"]
    /\ UNCHANGED <<pool_q, submitted, completed, serve_wait, upg, lastWrite,
                   Others>>

\* _refresh_host_services: the listing has returned,
\* self.service_cache[host] = OutdatableData(data)
WorkerEnd ==
    /\ thr_pc["worker"] = "run"
    /\ thr_pc' = [thr_pc EXCEPT !["worker"] = "idle"]
    /\ pool_q' = Tail(pool_q)
    /\ completed' = completed + 1
    /\ lastWrite' = Write("worker", CacheObject)
    /\ UNCHANGED <<submitted, serve_wait, upg, Others>>

\* serve(): an upgrade is in progress and not paused:
\* completion = self._get_services(), then the wait for it
ServeRefresh ==
    /\ thr_pc["serve"] = "idle"
    /\ upg = "active"
    /\ submitted < MaxTasks
    /\ submitted' = submitted + 1
    /\ pool_q' = Append(pool_q, submitted + 1)
    /\ serve_wait' = submitted + 1
    /\ thr_pc' = [thr_pc EXCEPT !["serve"] = "wait"]
    /\ UNCHANGED <<completed, upg, lastWrite, Others>>

\* serve(): the listing is complete, _do_upgrade reads self.upgrade_state
\* and returns if there is none; otherwise it goes one of its ways, and on
\* the first it enters _run_cephadm through _service_action, _create_daemon
ServeDoUpgrade ==
    /\ thr_pc["serve"] = "wait"
    /\ completed >= serve_wait
    /\ \E path \in UpgradePaths :
         thr_pc' = [thr_pc EXCEPT !["serve"] =
                       IF upg = "none" THEN "idle" ELSE path]
    /\ UNCHANGED <<pool_q, submitted, completed, serve_wait, upg, lastWrite,
                   Others>>

\* _create_daemon: the deployment has returned; invalidate(host) reads the
\* entry of the host
ServeDeployed ==
    /\ thr_pc["serve"] = "deploy"
    /\ thr_pc' = [thr_pc EXCEPT !["serve"] = "invalidate"]
    /\ UNCHANGED <<pool_q, submitted, completed, serve_wait, upg, lastWrite,
                   Others>>

\* invalidate(host) writes the entry back with the time of the epoch
ServeInvalidate ==
    /\ thr_pc["serve"] = "invalidate"
    /\ thr_pc' = [thr_pc EXCEPT !["serve"] = "idle"]
    /\ lastWrite' = Write("serve", CacheObject)
    /\ UNCHANGED <<pool_q, submitted, completed, serve_wait, upg, Others>>

\* _do_upgrade: self.upgrade_state['error'] = ...; with the state gone in
\* the meantime the assignment raises TypeError and serve() ends
ServeError ==
    /\ thr_pc["serve"] = "error"
    /\ IF upg = "none"
       THEN /\ thr_pc' = [thr_pc EXCEPT !["serve"] = "raised"]
            /\ UNCHANGED lastWrite
       ELSE /\ thr_pc' = [thr_pc EXCEPT !["serve"] = "idle"]
            /\ lastWrite' = Write("serve", UpgradeObject)
    /\ UNCHANGED <<pool_q, submitted, completed, serve_wait, upg, Others>>

\* _do_upgrade: self.upgrade_state = None, _save_upgrade_state()
ServeComplete ==
    /\ thr_pc["serve"] = "complete"
    /\ thr_pc' = [thr_pc EXCEPT !["serve"] = "idle"]
    /\ upg' = "none"
    /\ lastWrite' = Write("serve", UpgradeObject)
    /\ UNCHANGED <<pool_q, submitted, completed, serve_wait, Others>>

NextThreads ==
    \/ ApiSubmit
    \/ ApiStartPull
    \/ ApiStartSet
    \/ ApiPause
    \/ ApiResume
    \/ ApiStop
    \/ WorkerBegin
    \/ WorkerEnd
    \/ ServeRefresh
    \/ ServeDoUpgrade
    \/ ServeDeployed
    \/ ServeInvalidate
    \/ ServeError
    \/ ServeComplete

SpecThreads == InitThreads /\ [][NextThreads]_vars

(***************************************************************************)
(* Claims on the threads                                                   *)
(***************************************************************************)
\* C19: no two remote executions are in progress at the same time, and the
\* tasks of the pool run in the order of their submission.
C19_OneExecutionInOrder ==
    /\ Cardinality(Executing) <= 1
    /\ \A i \in 1..Len(pool_q) : pool_q[i] = completed + i

\* C20: no write to the upgrade state or to a cache entry is made while
\* another thread has read it and has still to write it.
C20_NoWriteDuringReadWrite == lastWrite.during = {}

(***************************************************************************)
(* The service listing and the service cache                               *)
(*                                                                         *)
(* _get_services lists the daemons of the registered hosts: it takes the   *)
(* daemon list of a host from the service cache when the entry is recent   *)
(* and scans the host (`cephadm ls`) when it is outdated or a refresh is   *)
(* asked for.  The scans are one batch of _refresh_host_services given to  *)
(* the worker pool with map_async.  _create_daemon and _remove_daemon      *)
(* invalidate the entry of their host.  The daemon lists themselves are    *)
(* one opaque value here.                                                  *)
(***************************************************************************)
\* the registered hosts, in the order the store lists its keys; the hosts
\* are interchangeable
ServiceHostOrder == <<"h1", "h2", "h3", "h4", "h5">>
ServiceHosts == RangeOf(ServiceHostOrder)
\* values of the option service_cache_timeout: its default and a large one
ServiceTimeouts == {60, 2000000000}
\* multiprocessing.pool.ThreadPool(1)
PoolSize == 1

\* the hosts the daemon operations of a behaviour name
PlacementHosts == {"h1", "h2"}

\* the entry __init__ gives a host that has none: never scanned
NeverScanned(utcnow) == Json(OutdatableData(None, NoTime, utcnow))

\* host_info.outdated(self.service_cache_timeout) of the entry of a host
ServiceOutdated(cache, host, timeout, utcnow) ==
    Outdated(GetItem(cache, host, utcnow), <<timeout>>, utcnow)

\* a listing that scans every host
WaitForArgs_All(pairs, refresh, timeout, utcnow) ==
    [i \in 1..Len(pairs) |-> pairs[i][1]]

\* _get_services, the first loop: wait_for_args, the hosts to scan
WaitForArgs(pairs, refresh, timeout, utcnow) ==
    LET F[i \in 0..Len(pairs)] ==
            IF i = 0 THEN <<>>
            ELSE IF Outdated(pairs[i][2], <<timeout>>, utcnow) \/ refresh
                 THEN Append(F[i - 1], pairs[i][1])
                 ELSE F[i - 1]
    IN  F[Len(pairs)]

\* _get_services, the first loop: in_cache, the daemon lists taken from the
\* cache
InCache(pairs, refresh, timeout, utcnow) ==
    LET F[i \in 0..Len(pairs)] ==
            IF i = 0 THEN <<>>
            ELSE IF Outdated(pairs[i][2], <<timeout>>, utcnow) \/ refresh
                 THEN F[i - 1]
                 ELSE Append(F[i - 1], pairs[i][2].data)
    IN  F[Len(pairs)]

\* what `cephadm ls` prints on a host.  The daemons of two hosts differ, so
\* a daemon list is known by the host it comes from.
Ls(host) == host

\* zip(a, b)
Zip(a, b) ==
    [i \in 1..(IF Len(a) < Len(b) THEN Len(a) ELSE Len(b)) |->
        <<a[i], b[i]>>]

\* _get_services_result(results): services[host] = data for the pairs of
\* zip(hosts, results + in_cache); every ServiceDescription made from the
\* list `data` gets nodename `host`.  A list that is None cannot be iterated.
GetServicesResult(hosts, results, in_cache) ==
    LET services == Zip(hosts, results \o in_cache)
    IN  IF \E i \in 1..Len(services) : services[i][2] = None
        THEN [raised |-> TypeError, listing |-> <<>>]
        ELSE [raised |-> None, listing |-> services]

\* map_async(func, iterable): the tasks are chunks of
\* ceil(len / (4 * pool size)) consecutive items
ChunkSize(n) == (n + 4 * PoolSize - 1) \div (4 * PoolSize)
ChunkOf(i, n) == (i - 1) \div ChunkSize(n)

\* the items of a batch of n that the worker runs when item failAt raises
\* (0: none does): an item that raises ends its chunk, the other chunks run
Ran(n, failAt) ==
    {i \in 1..n : ~(/\ failAt # 0
                    /\ ChunkOf(i, n) = ChunkOf(failAt, n)
                    /\ i > failAt)}

\* _refresh_host_services of a batch: every scan that returns writes the
\* entry of its host
RECURSIVE RefreshHostServices(_, _, _, _, _)
RefreshHostServices(cache, hosts, ran, failAt, utcnow) ==
    IF ran = {} THEN cache
    ELSE LET i == CHOOSE i \in ran : \A j \in ran : i <= j
             next == IF i = failAt THEN cache
                     ELSE SetItem(cache, hosts[i],
                                  OutdatableData(Ls(hosts[i]), NoTime,
                                                 utcnow))
         IN  RefreshHostServices(next, hosts, ran \ {i}, failAt, utcnow)

SeqOf(hosts, idx) ==
    LET F[i \in 0..Len(hosts)] ==
            IF i = 0 THEN <<>>
            ELSE IF i \in idx THEN Append(F[i - 1], hosts[i]) ELSE F[i - 1]
    IN  F[Len(hosts)]

\* the record of an operation: the hosts whose entry was outdated when it
\* began, the scans requested, the scans run, the entries written, the item
\* that raised, the exception of the completion, and of a listing the pairs
\* (nodename, daemon list) its ServiceDescriptions are made from
SvcOp(op, host, refresh, stale, requested, scanned, written, failed, raised,
      listing) ==
    [op |-> op, host |-> host, refresh |-> refresh, stale |-> stale,
     requested |-> requested, scanned |-> scanned, written |-> written,
     failed |-> failed, raised |-> raised, listing |-> listing]

InitServices ==
    /\ PromiseIdle
    /\ LoopIdle
    /\ ScanIdle
    /\ ReconcileIdle
    /\ UpgradeIdle
    /\ RemoteIdle
    /\ WaitIdle
    /\ ThreadsIdle
    /\ now \in StartClocks
    /\ utcoffset = 0
    /\ inventory = ServiceHosts
    /\ inventory_cache = [h \in ServiceHosts |-> NeverScanned(now)]
    /\ service_cache = [h \in ServiceHosts |-> NeverScanned(now)]
    /\ lastHostOp = [NoHostOp EXCEPT !.op = "__init__"]
    /\ service_cache_timeout \in ServiceTimeouts
    /\ lastSvcOp = NoSvcOp

\* _get_services(refresh=...), the chain it returns finalized
DoGetServices ==
    /\ UNCHANGED <<pvars, rvars, uvars, cvars, wvars, tvars, lvars, gvars>>
    /\ UNCHANGED <<inventory, inventory_cache, now, utcoffset, lastHostOp,
                   service_cache_timeout>>
    /\ \E refresh \in BOOLEAN,
          stale \in {{h \in ServiceHosts :
                         ServiceOutdated(service_cache, h,
                                         service_cache_timeout, now)}} :
         \E pairs \in {ItemsFiltered(service_cache, <<>>, ServiceHostOrder,
                                     now)} :
         \E hosts \in {WaitForArgs(pairs, refresh, service_cache_timeout,
                                   now)} :
             \E failAt \in 0..Len(hosts) :
                LET ran == Ran(Len(hosts), failAt)
                    results == [i \in 1..Len(hosts) |-> Ls(hosts[i])]
                    res == IF failAt # 0
                           THEN [raised |-> RuntimeError, listing |-> <<>>]
                           ELSE GetServicesResult(
                                    [i \in 1..Len(pairs) |-> pairs[i][1]],
                                    results,
                                    InCache(pairs, refresh,
                                            service_cache_timeout, now))
                IN  /\ service_cache' =
                           RefreshHostServices(service_cache, hosts, ran,
                                               failAt, now)
                    /\ lastSvcOp' =
                           SvcOp("get_services", None, refresh, stale, hosts,
                                 SeqOf(hosts, ran),
                                 {hosts[i] : i \in ran \ {failAt}}, failAt,
                                 res.raised, res.listing)

\* _create_daemon(.., host, ..): `cephadm deploy` of a new daemon, or of an
\* existing one (redeploy), then service_cache.invalidate(host)
DoCreateDaemon ==
    /\ UNCHANGED <<pvars, rvars, uvars, cvars, wvars, tvars, lvars, gvars>>
    /\ UNCHANGED <<inventory, inventory_cache, now, utcoffset, lastHostOp,
                   service_cache_timeout>>
    /\ \E host \in PlacementHosts, op \in {"create", "redeploy"},
          ok \in BOOLEAN :
         /\ service_cache' = IF ok THEN Invalidate(service_cache, host, now,
                                                   utcoffset)
                             ELSE service_cache
         /\ lastSvcOp' = SvcOp(op, host, FALSE, {}, <<>>, <<>>, {}, 0,
                               IF ok THEN None ELSE RuntimeError, <<>>)

\* _remove_daemon(name, host): `cephadm rm-daemon`, then
\* service_cache.invalidate(host)
DoRemoveDaemon ==
    /\ UNCHANGED <<pvars, rvars, uvars, cvars, wvars, tvars, lvars, gvars>>
    /\ UNCHANGED <<inventory, inventory_cache, now, utcoffset, lastHostOp,
                   service_cache_timeout>>
    /\ \E host \in PlacementHosts, ok \in BOOLEAN :
         /\ service_cache' = IF ok THEN Invalidate(service_cache, host, now,
                                                   utcoffset)
                             ELSE service_cache
         /\ lastSvcOp' = SvcOp("remove", host, FALSE, {}, <<>>, <<>>, {}, 0,
                               IF ok THEN None ELSE RuntimeError, <<>>)

NextServices ==
    \/ DoGetServices
    \/ DoCreateDaemon
    \/ DoRemoveDaemon
    \/ Tick

SpecServices == InitServices /\ [][NextServices]_vars

(***************************************************************************)
(* Claims about the service listing and the service cache                  *)
(***************************************************************************)
\* the last operation was a service listing one of whose scans raised
FailedListing ==
    /\ lastSvcOp.op = "get_services"
    /\ lastSvcOp.failed # 0

\* the entry a scan that returns at utcnow writes
JustScanned(host, utcnow) ==
    Json(OutdatableData(Ls(host), <<utcnow>>, utcnow))

\* C22: when an item of the batch of scans raises, the completion fails with
\* that error, the items after it are not run, and the entries of the hosts
\* scanned before it are the ones those scans wrote.
C22_BatchStopsAtFailure ==
    FailedListing
    => /\ lastSvcOp.raised = RuntimeError
       /\ lastSvcOp.scanned
              = SubSeq(lastSvcOp.requested, 1, lastSvcOp.failed)
       /\ \A i \in 1..(lastSvcOp.failed - 1) :
             service_cache[lastSvcOp.requested[i]]
                 = JustScanned(lastSvcOp.requested[i], now)

\* the last operation was a create, redeploy or remove of a daemon that
\* succeeded
DaemonChanged ==
    /\ lastSvcOp.op \in {"create", "redeploy", "remove"}
    /\ lastSvcOp.raised = None

\* C27: after a successful create, redeploy or remove of a daemon on a host
\* the service-cache entry of the host is outdated, so that the next listing
\* scans the host.
C27_StaleAfterChange ==
    DaemonChanged
    => ServiceOutdated(service_cache, lastSvcOp.host, service_cache_timeout,
                       now)

\* the hosts a listing has to scan
ToScan ==
    IF lastSvcOp.refresh THEN ServiceHosts ELSE lastSvcOp.stale

C36_HostOfItsListing ==
    lastSvcOp.op = "get_services"
    => \A i \in 1..Len(lastSvcOp.listing) :
          lastSvcOp.listing[i][2] = Ls(lastSvcOp.listing[i][1])

(***************************************************************************)
(* The control loop                                                        *)
(*                                                                         *)
(* serve() is followed statement by statement, next to the thread that     *)
(* calls the upgrade API and shutdown().  The cluster is the set of        *)
(* deployed daemons with the image each runs; a listing shows them all,    *)
(* a successful redeployment puts its daemon on the target image, and the  *)
(* manager map lists as standby the other managers of the cluster.         *)
(* `mgr fail` hands the module over to a standby: the instance that takes  *)
(* over loads the stored state and starts its own serve().  The manager    *)
(* that is active is always called MgrId, so a failover exchanges the      *)
(* images of the two managers.                                             *)
(***************************************************************************)
\* the daemons of the cluster, in the order a listing shows them
ClusterOrder ==
    <<<<"mgr", "x">>, <<"mgr", "y">>, <<"osd", "0">>, <<"rgw", "r">>>>
ClusterNames == RangeOf(ClusterOrder)
Standby == <<"mgr", "y">>
Self == <<"mgr", MgrId>>
\* the image daemons run before any upgrade
OldImage == "id1"

\* the ServiceDescriptions of a listing of the cluster
ListingOf(c) ==
    LET names == SelectSeq(ClusterOrder, LAMBDA n : n \in DOMAIN c)
    IN  [i \in 1..Len(names) |->
            [service_type |-> names[i][1], service_instance |-> names[i][2],
             container_image_id |-> c[names[i]]]]

\* len(mgr_map.get('standbys'))
Standbys(c) == IF Standby \in DOMAIN c THEN 1 ELSE 0

\* the active manager and its standby change places
Failover(c) ==
    [n \in DOMAIN c |->
        IF n = Self /\ Standby \in DOMAIN c THEN c[Standby]
        ELSE IF n = Standby /\ Self \in DOMAIN c THEN c[Self]
        ELSE c[n]]

AttributeError == "AttributeError"
\* serve_pc is the statement serve() is at, "exit" once it has returned, and
\* the exception once one has left it
ServeExceptions == {RuntimeError, TypeError, AttributeError}
ServeEnded == serve_pc \in {"exit"} \cup ServeExceptions

InitServe ==
    /\ PromiseIdle
    /\ ReconcileIdle
    /\ RemoteIdle
    /\ WaitIdle
    /\ ThreadsIdle
    /\ ServicesIdle
    /\ ScanIdle
    /\ now \in StartClocks
    /\ utcoffset = 0
    /\ inventory = {"h1"}
    /\ inventory_cache = SyncAdd(inventory, EmptyDict, now)
    /\ service_cache = SyncAdd(inventory, EmptyDict, now)
    /\ lastHostOp = [NoHostOp EXCEPT !.op = "__init__"]
    /\ upgrade_store \in StoredUpgrades
    /\ upgrade_state = LoadUpgradeState(upgrade_store)
    /\ serve_running = TRUE
    /\ lastUpgradeOp = [NoUpgradeOp EXCEPT !.op = "__init__"]
    /\ run = TRUE
    /\ event = FALSE
    /\ pool_open = TRUE
    /\ serve_pc = "run"
    /\ api_pc = "idle"
    /\ \E S \in SUBSET ClusterNames : cluster = [n \in S |-> OldImage]

LoopOthers == <<pvars, hvars, rvars, cvars, wvars, tvars, svars, gvars>>

\* serve() goes from one statement to another
Goto(pc) ==
    /\ serve_pc' = pc
    /\ serve_running' = (pc \notin {"exit"} \cup ServeExceptions)

\* while self.run:
LoopRun ==
    /\ serve_pc = "run"
    /\ Goto(IF run THEN "cond" ELSE "exit")
    /\ UNCHANGED <<upgrade_state, upgrade_store, lastUpgradeOp>>
    /\ UNCHANGED <<run, event, pool_open, api_pc, cluster, LoopOthers>>

\* while self.upgrade_state and ...: the first operand
LoopCond ==
    /\ serve_pc = "cond"
    /\ Goto(IF upgrade_state # <<>> THEN "paused" ELSE "wait")
    /\ UNCHANGED <<upgrade_state, upgrade_store, lastUpgradeOp>>
    /\ UNCHANGED <<run, event, pool_open, api_pc, cluster, LoopOthers>>

\* ... and not self.upgrade_state.get('paused'): the second operand reads
\* self.upgrade_state again; None has no attribute 'get'
LoopPaused ==
    /\ serve_pc = "paused"
    /\ IF upgrade_state = <<>>
       THEN /\ Goto(AttributeError)
            /\ lastUpgradeOp' =
                   UpgradeOp("serve", <<>>, <<>>,
                             URes(upgrade_state, FALSE, "while", <<>>,
                                  AttributeError, FALSE), <<>>, <<>>)
       ELSE /\ Goto(IF IsPaused(upgrade_state[1]) THEN "wait" ELSE "refresh")
            /\ UNCHANGED lastUpgradeOp
    /\ UNCHANGED <<upgrade_state, upgrade_store>>
    /\ UNCHANGED <<run, event, pool_open, api_pc, cluster, LoopOthers>>

\* completion = self._get_services(); self._orchestrator_wait([completion]);
\* orchestrator.raise_if_exception(completion).  The listing needs scans or
\* not; a scan may fail, and a closed pool takes no scan.
LoopRefresh ==
    /\ serve_pc = "refresh"
    /\ \E failed \in {need_scan /\ (~pool_open \/ ~scan_ok) :
                          need_scan \in BOOLEAN, scan_ok \in BOOLEAN} :
         IF failed
         THEN /\ Goto(RuntimeError)
              /\ lastUpgradeOp' =
                     UpgradeOp("_get_services", <<>>, <<>>,
                               URes(upgrade_state, FALSE, "refresh", <<>>,
                                    RuntimeError, FALSE), <<>>, <<>>)
         ELSE /\ Goto("upgrade")
              /\ UNCHANGED lastUpgradeOp
    /\ UNCHANGED <<upgrade_state, upgrade_store>>
    /\ UNCHANGED <<run, event, pool_open, api_pc, cluster, LoopOthers>>

\* completion = self._do_upgrade(completion.result), and the wait for the
\* completion of a redeployment
LoopDoUpgrade ==
    /\ serve_pc = "upgrade"
    /\ LET ds == ListingOf(cluster)
       IN  \E r \in {DoUpgrade(upgrade_state, ds, Standbys(cluster), ok) :
                         ok \in BOOLEAN} :
             /\ lastUpgradeOp' =
                    UpgradeOp("_do_upgrade", <<>>, <<>>, r, <<>>, ds)
             /\ IF r.raised # None
                THEN /\ Effect(r)
                     /\ Goto(r.raised)
                     /\ UNCHANGED <<run, event, pool_open, api_pc, cluster>>
                ELSE IF r.fmt = "mgr fail"
                THEN /\ upgrade_state' = LoadUpgradeState(upgrade_store)
                     /\ UNCHANGED upgrade_store
                     /\ Goto("run")
                     /\ run' = TRUE
                     /\ event' = FALSE
                     /\ pool_open' = TRUE
                     /\ api_pc' = "idle"
                     /\ cluster' = Failover(cluster)
                ELSE /\ Effect(r)
                     /\ Goto("cond")
                     /\ cluster' =
                            IF r.fmt = "redeploy"
                            THEN [cluster EXCEPT ![r.args[1]] =
                                     upgrade_state[1]["target_id"]]
                            ELSE cluster
                     /\ UNCHANGED <<run, event, pool_open, api_pc>>
    /\ UNCHANGED LoopOthers

\* ret = self.event.wait(sleep_interval): the event is set
LoopWait ==
    /\ serve_pc = "wait"
    /\ event
    /\ Goto("clear")
    /\ UNCHANGED <<upgrade_state, upgrade_store, lastUpgradeOp>>
    /\ UNCHANGED <<run, event, pool_open, api_pc, cluster, LoopOthers>>

\* ret = self.event.wait(sleep_interval): the hour has passed
LoopTimeout ==
    /\ serve_pc = "wait"
    /\ ~event
    /\ Goto("clear")
    /\ UNCHANGED <<upgrade_state, upgrade_store, lastUpgradeOp>>
    /\ UNCHANGED <<run, event, pool_open, api_pc, cluster, LoopOthers>>

\* self.event.clear()
LoopClear ==
    /\ serve_pc = "clear"
    /\ event' = FALSE
    /\ Goto("run")
    /\ UNCHANGED <<upgrade_state, upgrade_store, lastUpgradeOp>>
    /\ UNCHANGED <<run, pool_open, api_pc, cluster, LoopOthers>>

\* upgrade_start(image, None) up to _save_upgrade_state(); a call that
\* initiates an upgrade has self.event.set() still to do
LoopStart ==
    /\ api_pc = "idle"
    /\ \E pull \in PullResults :
         LET image == <<<<"image_id">>>>
             r == UpgradeStart(upgrade_state, image, <<>>,
                               StoreKeys(inventory_cache), pull)
         IN  /\ Effect(r)
             /\ lastUpgradeOp' =
                    UpgradeOp("upgrade_start", image, <<>>, r, <<>>, <<>>)
             /\ api_pc' = IF r.fmt = "Initiating upgrade to %s %s"
                          THEN "kick" ELSE "idle"
    /\ UNCHANGED <<run, event, pool_open, serve_pc, serve_running, cluster,
                   LoopOthers>>

\* upgrade_start: self.event.set()
LoopKick ==
    /\ api_pc = "kick"
    /\ event' = TRUE
    /\ api_pc' = "idle"
    /\ UNCHANGED <<uvars, run, pool_open, serve_pc, cluster, LoopOthers>>

\* shutdown(): self._worker_pool.close(); self._worker_pool.join()
ShutdownPool ==
    /\ api_pc = "idle"
    /\ pool_open' = FALSE
    /\ api_pc' = "closed"
    /\ UNCHANGED <<uvars, run, event, serve_pc, cluster, LoopOthers>>

\* shutdown(): self.run = False
ShutdownRun ==
    /\ api_pc = "closed"
    /\ run' = FALSE
    /\ api_pc' = "stopped"
    /\ UNCHANGED <<uvars, event, pool_open, serve_pc, cluster, LoopOthers>>

\* shutdown(): self.event.set()
ShutdownSet ==
    /\ api_pc = "stopped"
    /\ event' = TRUE
    /\ api_pc' = "down"
    /\ UNCHANGED <<uvars, run, pool_open, serve_pc, cluster, LoopOthers>>

ServeThread ==
    \/ LoopRun
    \/ LoopCond
    \/ LoopPaused
    \/ LoopRefresh
    \/ LoopDoUpgrade
    \/ LoopWait
    \/ LoopTimeout
    \/ LoopClear

\* what is left to do of a call that has begun
CallReturns == LoopKick \/ ShutdownRun \/ ShutdownSet

NextServe ==
    \/ LoopRun
    \/ LoopCond
    \/ LoopPaused
    \/ LoopRefresh
    \/ LoopDoUpgrade
    \/ LoopWait
    \/ LoopTimeout
    \/ LoopClear
    \/ LoopStart
    \/ LoopKick
    \/ DoUpgradePause
    \/ DoUpgradeResume
    \/ DoUpgradeStop
    \/ ShutdownPool
    \/ ShutdownRun
    \/ ShutdownSet

SpecServe == InitServe /\ [][NextServe]_vars

\* the thread of serve() keeps running and a call that has begun returns
FairSpecServe ==
    SpecServe /\ WF_vars(ServeThread) /\ WF_vars(CallReturns)

(***************************************************************************)
(* Claims on the control loop                                              *)
(***************************************************************************)
\* the state carries the key 'paused'
HasPausedKey(state) == state # <<>> /\ DictHas(state[1], "paused")
\* an upgrade is in progress and is not paused
Active == upgrade_state # <<>> /\ ~IsPaused(upgrade_state[1])
\* what a turn of _do_upgrade does to the cluster
UpgradeSteps == {"redeploy", "mgr fail", "complete"}
\* shutdown() has been called
ShuttingDown == api_pc \in {"closed", "stopped", "down"}

\* C31 as stated: no turn of _do_upgrade redeploys a daemon, fails the
\* manager over or finalizes the image configuration while the upgrade
\* state is paused.
C31_NoStepWhilePaused ==
    (lastUpgradeOp.op = "_do_upgrade" /\ lastUpgradeOp.fmt \in UpgradeSteps)
    => ~HasPausedKey(lastUpgradeOp.before)

\* C31, amended: serve() begins no turn of its upgrade loop (no listing, no
\* _do_upgrade) while the state is paused, and a paused state loses the key
\* 'paused' only by upgrade_resume or upgrade_start; the turn that was past
\* the while condition when the pause came is still carried out.
C31_NoTurnBeginsPaused ==
    [][/\ (serve_pc = "paused" /\ serve_pc' = "refresh")
          => ~HasPausedKey(upgrade_state)
       /\ (HasPausedKey(upgrade_state) /\ upgrade_state' # <<>>
             /\ ~HasPausedKey(upgrade_state'))
          => lastUpgradeOp'.op \in {"upgrade_resume", "upgrade_start"}]_vars

\* the pause came during a turn: the turn redeployed a daemon, then serve()
\* found the state paused and went to wait for its event
C31_Witness ==
    /\ serve_pc = "wait"
    /\ HasPausedKey(upgrade_state)
    /\ lastUpgradeOp.op = "_do_upgrade"
    /\ lastUpgradeOp.fmt = "redeploy"
    /\ HasPausedKey(lastUpgradeOp.before)

\* the listing shows a manager other than the active one
ListsStandby(ds) ==
    \E i \in 1..Len(ds) : ds[i].service_type = "mgr" /\ ~IsSelf(ds[i])

\* C32: a turn fails the manager over only with a standby in the manager
\* map; a turn that finds none issues no failover, records the error in the
\* state and leaves the upgrade suspended: no further turn begins.
C32_NoStandbySuspends ==
    /\ (lastUpgradeOp.op = "_do_upgrade" /\ lastUpgradeOp.fmt = "mgr fail")
       => ListsStandby(lastUpgradeOp.daemons)
    /\ (lastUpgradeOp.op = "_do_upgrade" /\ lastUpgradeOp.fmt = "suspend")
       => /\ ~ListsStandby(lastUpgradeOp.daemons)
          /\ upgrade_state # <<>>
          /\ DictHas(upgrade_state[1], "error")
          /\ ~Active

\* C34: an upgrade in progress is eventually cleared, unless it is paused
\* or stopped (a stop may end serve() with AttributeError), the manager is
\* shut down, a listing or a redeployment fails, or the missing standby is
\* recorded.
C34_UpgradeCompletes ==
    Active ~> \/ upgrade_state = <<>>
              \/ HasPausedKey(upgrade_state)
              \/ ShuttingDown
              \/ serve_pc \in {RuntimeError, AttributeError}
              \/ (upgrade_state # <<>> /\ DictHas(upgrade_state[1], "error"))

\* C35: after a listing or a redeployment of an upgrade turn has failed,
\* serve() is still running.
C35_FailureKeepsServe ==
    (/\ lastUpgradeOp.op \in {"_get_services", "_do_upgrade"}
     /\ lastUpgradeOp.fmt \in {"refresh", "redeploy"}
     /\ lastUpgradeOp.raised # None)
    => ~ServeEnded

C40_WakeupNotLost ==
    ~(serve_pc = "wait" /\ ~event /\ api_pc = "idle" /\ Active)

(***************************************************************************)
(* A scan next to a redeployment                                           *)
(*                                                                         *)
(* _refresh_host_services, _remove_daemon and the daemon creations of the  *)
(* add_* calls are tasks of the worker pool, which has one thread: they    *)
(* run one after the other.  The redeployment of an upgrade runs on the    *)
(* thread of serve(): _do_upgrade calls _service_action, which calls       *)
(* _create_daemon.  Nothing orders the two threads.  The daemon list of a  *)
(* host is known by the number of changes made to it.                      *)
(***************************************************************************)
\* changes made to the daemons of one host in one behaviour
MaxMutations == 2

\* what `cephadm ls` prints on a host whose daemons were changed n times
LsOutput(n) == ToString(n)

\* the tasks of the pool that change the daemons of a host
WorkerMutations == {"create", "remove"}

InitScan ==
    /\ PromiseIdle
    /\ ReconcileIdle
    /\ UpgradeIdle
    /\ RemoteIdle
    /\ WaitIdle
    /\ ThreadsIdle
    /\ ServicesIdle
    /\ LoopIdle
    /\ now \in StartClocks
    /\ utcoffset \in UtcOffsets
    /\ inventory = Hosts
    /\ inventory_cache = SyncAdd(inventory, EmptyDict, now)
    /\ service_cache = SyncAdd(inventory, EmptyDict, now)
    /\ lastHostOp = [NoHostOp EXCEPT !.op = "__init__"]
    /\ host_ls = [h \in inventory |-> 0]
    /\ worker_job = NoJob
    /\ serve_job = NoJob

ScanOthers == <<pvars, rvars, uvars, cvars, wvars, tvars, svars, lvars>>
ScanFrame == <<inventory, inventory_cache, now, utcoffset, lastHostOp>>

\* _refresh_host_services(host) on the worker: `cephadm ls` runs on the host
\* and returns its daemons as they are
ScanRun ==
    /\ worker_job = NoJob
    /\ \E host \in inventory :
         worker_job' = [kind |-> "scan", host |-> host,
                        read |-> LsOutput(host_ls[host])]
    /\ UNCHANGED <<host_ls, serve_job, service_cache, ScanFrame, ScanOthers>>

\* _refresh_host_services:
\* self.service_cache[host] = orchestrator.OutdatableData(data)
ScanStore ==
    /\ worker_job.kind = "scan"
    /\ service_cache' = SetItem(service_cache, worker_job.host,
                                OutdatableData(worker_job.read, NoTime, now))
    /\ worker_job' = NoJob
    /\ UNCHANGED <<host_ls, serve_job, ScanFrame, ScanOthers>>

\* a task of the pool that creates or removes a daemon: `cephadm deploy` or
\* `cephadm rm-daemon` runs on the host
WorkerMutate ==
    /\ worker_job = NoJob
    /\ \E kind \in WorkerMutations, host \in inventory :
         /\ host_ls[host] < MaxMutations
         /\ host_ls' = [host_ls EXCEPT ![host] = @ + 1]
         /\ worker_job' = [kind |-> kind, host |-> host, read |-> None]
    /\ UNCHANGED <<serve_job, service_cache, ScanFrame, ScanOthers>>

\* _create_daemon, _remove_daemon: self.service_cache.invalidate(host)
WorkerInvalidate ==
    /\ worker_job.kind \in WorkerMutations
    /\ service_cache' = Invalidate(service_cache, worker_job.host, now,
                                   utcoffset)
    /\ worker_job' = NoJob
    /\ UNCHANGED <<host_ls, serve_job, ScanFrame, ScanOthers>>

\* _do_upgrade on the thread of serve(): _service_action(.., 'redeploy'),
\* _create_daemon runs `cephadm deploy` on the host of the daemon
ServeRedeploy ==
    /\ serve_job = NoJob
    /\ \E host \in inventory :
         /\ host_ls[host] < MaxMutations
         /\ host_ls' = [host_ls EXCEPT ![host] = @ + 1]
         /\ serve_job' = [kind |-> "redeploy", host |-> host, read |-> None]
    /\ UNCHANGED <<worker_job, service_cache, ScanFrame, ScanOthers>>

\* _create_daemon on the thread of serve():
\* self.service_cache.invalidate(host)
ServeRedeployInvalidate ==
    /\ serve_job.kind = "redeploy"
    /\ service_cache' = Invalidate(service_cache, serve_job.host, now,
                                   utcoffset)
    /\ serve_job' = NoJob
    /\ UNCHANGED <<host_ls, worker_job, ScanFrame, ScanOthers>>

NextScan ==
    \/ ScanRun
    \/ ScanStore
    \/ WorkerMutate
    \/ WorkerInvalidate
    \/ ServeRedeploy
    \/ ServeRedeployInvalidate

SpecScan == InitScan /\ [][NextScan]_vars

\* the entry of the host is fresh: _get_services would answer from it
Fresh(host) ==
    ~ServiceOutdated(service_cache, host, service_cache_timeout, now)

\* the daemon list the cache holds for the host
Cached(host) == GetItem(service_cache, host, now).data

\* a thread has changed the daemons of the host and has still to invalidate
\* the entry
Mutating(host) ==
    \/ worker_job.kind \in WorkerMutations /\ worker_job.host = host
    \/ serve_job.kind = "redeploy" /\ serve_job.host = host

\* C39: a scan of a host that read the daemon list before a creation, a
\* redeployment or a removal on the host completed never leaves the entry
\* of the host fresh with the list of before the change: once the change
\* has invalidated the entry, a fresh entry holds the daemons the host has.
C39_NoFreshStaleList ==
    \A host \in inventory :
        (Fresh(host) /\ ~Mutating(host))
        => Cached(host) = LsOutput(host_ls[host])

====
